---- MODULE Spec2Model ----
(***************************************************************************)
(* Model of the Maya calendar engine of whispr-dev/mayan_calendar.         *)
(*                                                                         *)
(* The repository holds many iterations of one program.  Three parts are   *)
(* modelled, each with its own specification over the same variables:      *)
(*                                                                         *)
(*   SpecMath   the pure date transforms (LongCount::from_days / to_days,  *)
(*              tzolkin_date, haab_date), applied to a day offset;         *)
(*   SpecCache  CalendarCache (an lru::LruCache behind get_calendar_data / *)
(*              put_calendar_data) driven by one caller;                   *)
(*   Spec       ParallelCalendarCalculator: calculate_single_date and      *)
(*              calculate_date_range run by concurrent workers over the    *)
(*              RwLock-guarded CalendarCache and the atomic Metrics.       *)
(*                                                                         *)
(* Where iterations of the source differ in behaviour the variable `build` *)
(* says which iteration is running.                                        *)
(***************************************************************************)
EXTENDS Integers, Sequences, FiniteSets, TLC

VARIABLES
    build,      \* which iteration of the engine is running
    days,       \* SpecMath: the day offset handed to the date transforms
    mathOut,    \* SpecMath: the result of the last transform applied
    capacity,   \* CalendarCache: the capacity given to LruCache::new
    lru,        \* CalendarCache: the entries, most recently used first
    log,        \* SpecCache: the get and put calls made so far, in order
    lock,       \* the RwLock around the CalendarCache: its writer and readers
    metrics,    \* Metrics: the atomic counters
    now,        \* the wall-clock date (chrono::Local::now)
    th,         \* per thread: where it is in its call, its argument and local data
    range,      \* the calculate_date_range call: its tasks and collected results
    calendar_data,  \* MayanCalendar.calendar_data, the snapshot on display
    last_calendar_update,   \* MayanCalendar.last_calendar_update: the date of the last refresh
    callInfo,   \* history: what each thread saw when its current call began
    calls,      \* history: how many calls have begun, how many durations were recorded
    hist,       \* history: the last two completed calls
    computeCount,   \* history: computations of a day offset since its last eviction
    returned,   \* history: every (day offset, snapshot) a call has returned
    finishOrder,    \* history: the range's task indexes in order of completion
    files,      \* the glyph image files on disk, per glyph
    textures,   \* TextureCache: the handle stored per glyph, if any
    assetLock,  \* the RwLock around the TextureCache
    gth,        \* per thread: where it is in its glyph load or lookup
    preload,    \* the preload_glyphs batch: what is left, what it returns
    app,        \* whether MayanCalendar::new has run, and how it ended
    handles,    \* history: every texture handle ctx.load_texture has created
    attempts,   \* history: per glyph, how its last load attempt ended
    glog        \* history: the completed glyph lookups, in order

mathVars == <<days, mathOut>>

cacheVars == <<capacity, lru, log>>

engineVars == <<lock, metrics, now, th, range, calendar_data, last_calendar_update>>

histVars == <<callInfo, calls, hist, computeCount, returned, finishOrder>>

assetVars == <<files, textures, assetLock, gth, preload, app, handles, attempts, glog>>

vars == <<build, mathVars, cacheVars, engineVars, histVars, assetVars>>

(***************************************************************************)
(* Rust integer arithmetic on i32: `/` truncates toward zero and `%` takes *)
(* the sign of the dividend.                                               *)
(***************************************************************************)
TruncDiv(a, b) == IF a >= 0 THEN a \div b ELSE -((-a) \div b)

TruncRem(a, b) == a - b * TruncDiv(a, b)

\* `x as usize` followed by an array index of a table with n entries: a
\* negative i32 sign-extends to a value far above n, and the index panics.
IndexInto(table, i) == IF i >= 0 /\ i < Len(table) THEN table[i + 1] ELSE "panic"

\* Option: None, and Some of a value.
None == [some |-> FALSE]

Some(x) == [some |-> TRUE, value |-> x]

BAKTUN_DAYS == 144000
KATUN_DAYS == 7200
TUN_DAYS == 360
UINAL_DAYS == 20

(***************************************************************************)
(* LongCount::from_days and LongCount::to_days.                            *)
(***************************************************************************)
from_days_counting_from_13(d) ==
    LET e      == d + 13 * BAKTUN_DAYS
        rem1   == TruncRem(e, BAKTUN_DAYS)
        rem2   == TruncRem(rem1, KATUN_DAYS)
        rem3   == TruncRem(rem2, TUN_DAYS)
    IN [baktun |-> TruncDiv(e, BAKTUN_DAYS), katun |-> TruncDiv(rem1, KATUN_DAYS),
        tun |-> TruncDiv(rem2, TUN_DAYS),
        uinal |-> TruncDiv(rem3, UINAL_DAYS), kin |-> TruncRem(rem3, UINAL_DAYS)]

from_days_floor(d) ==
    LET baktun == d \div BAKTUN_DAYS
        rem1   == TruncRem(d, BAKTUN_DAYS)
        katun  == TruncDiv(rem1, KATUN_DAYS)
        rem2   == TruncRem(rem1, KATUN_DAYS)
        tun    == TruncDiv(rem2, TUN_DAYS)
        rem3   == TruncRem(rem2, TUN_DAYS)
    IN [baktun |-> baktun, katun |-> katun, tun |-> tun,
        uinal |-> TruncDiv(rem3, UINAL_DAYS), kin |-> TruncRem(rem3, UINAL_DAYS)]

from_days(d) ==
    LET baktun == TruncDiv(d, BAKTUN_DAYS)
        rem1   == TruncRem(d, BAKTUN_DAYS)
        katun  == TruncDiv(rem1, KATUN_DAYS)
        rem2   == TruncRem(rem1, KATUN_DAYS)
        tun    == TruncDiv(rem2, TUN_DAYS)
        rem3   == TruncRem(rem2, TUN_DAYS)
        uinal  == TruncDiv(rem3, UINAL_DAYS)
        kin    == TruncRem(rem3, UINAL_DAYS)
    IN [baktun |-> baktun, katun |-> katun, tun |-> tun, uinal |-> uinal, kin |-> kin]

to_days(lc) ==
    lc.baktun * BAKTUN_DAYS + lc.katun * KATUN_DAYS + lc.tun * TUN_DAYS
        + lc.uinal * UINAL_DAYS + lc.kin

\* long_count of src/main.rs: the same divisions with the periods written out.
long_count_main(d) ==
    LET baktun == TruncDiv(d, 144000)
        rem1   == TruncRem(d, 144000)
        katun  == TruncDiv(rem1, 7200)
        rem2   == TruncRem(rem1, 7200)
        tun    == TruncDiv(rem2, 360)
        rem3   == TruncRem(rem2, 360)
        uinal  == TruncDiv(rem3, 20)
        kin    == TruncRem(rem3, 20)
    IN [baktun |-> baktun, katun |-> katun, tun |-> tun, uinal |-> uinal, kin |-> kin]

(***************************************************************************)
(* tzolkin_date and haab_date.  src/main.rs wraps every remainder into the *)
(* non-negative range; the chrono_maya_optim iterations 0.0.3 to 0.0.5 use *)
(* the bare `%`.                                                           *)
(***************************************************************************)
yucatec_names ==
    <<"Imix", "Ik'", "Ak'b'al", "K'an", "Chikchan", "Kimi", "Manik'", "Lamat",
      "Muluk", "Ok", "Chuwen", "Eb'", "B'en", "Ix", "Men", "Kib'", "Kab'an",
      "Etz'nab'", "Kawak", "Ajaw">>

yucatec_months ==
    <<"Pop", "Wo'", "Sip", "Sotz'", "Sek", "Xul", "Yaxk'in", "Mol", "Ch'en",
      "Yax", "Sak'", "Keh", "Mak", "K'ank'in", "Muwan", "Pax", "K'ayab",
      "Kumk'u", "Wayeb'">>

yucatec_months_main ==
    <<"Pop", "Wo'", "Sip", "Sotz'", "Sek", "Xul", "Yaxkin", "Mol", "Ch'en",
      "Yax", "Zac", "Ceh", "Mac", "Kankin", "Muan", "Pax", "Kayab", "Kumk'u",
      "Wayeb'">>

tzolkin_date_main(d) ==
    LET number == TruncRem(TruncRem(d + 3, 13) + 13, 13) + 1
        index  == TruncRem(TruncRem(d + 19, 20) + 20, 20)
    IN [number |-> number, index |-> index,
        yucatec_name |-> IndexInto(yucatec_names, index)]

tzolkin_date_optim(d) ==
    LET number   == TruncRem(d + 4, 13) + 1
        position == TruncRem(d + 19, 20)
    IN [number |-> number, index |-> position,
        yucatec_name |-> IndexInto(yucatec_names, position)]

haab_date_main(d) ==
    LET haab_day    == TruncRem(TruncRem(d + 348, 365) + 365, 365)
        month_index == TruncDiv(haab_day, 20)
        day         == TruncRem(haab_day, 20)
    IN [day |-> day, month_index |-> month_index,
        yucatec_month |-> IndexInto(yucatec_months_main, month_index)]

haab_date_optim(d) ==
    LET year_position  == TruncRem(d, 365)
        day            == TruncRem(year_position, 20)
        month_position == TruncDiv(year_position, 20)
    IN [day |-> day, month_index |-> month_position,
        yucatec_month |-> IndexInto(yucatec_months, month_position)]

\* TzolkinDate::from_days and HaabDate::from_days of iteration 0.0.5, whose
\* structs hold the numbers only, and the Calendar Round they repeat in.
CALENDAR_ROUND == 18980

TzolkinDate_from_days(d) ==
    [number |-> TruncRem(d + 4, 13) + 1, name_index |-> TruncRem(d + 19, 20)]

HaabDate_from_days(d) ==
    LET year_position == TruncRem(d, 365)
    IN [day |-> TruncRem(year_position, 20),
        month_index |-> TruncDiv(year_position, 20)]

(***************************************************************************)
(* The date_utils module that the engine iterations import tzolkin_date    *)
(* and haab_date from is not among the sources; these follow the contract  *)
(* of the specification (floor-style modulo) with the correlation          *)
(* constants of src/main.rs.                                               *)
(***************************************************************************)
date_utils_tzolkin_date(d) ==
    [number |-> ((d + 3) % 13) + 1, index |-> (d + 19) % 20,
     yucatec_name |-> IndexInto(yucatec_names, (d + 19) % 20)]

date_utils_haab_date(d) ==
    [day |-> ((d + 348) % 365) % 20, month_index |-> ((d + 348) % 365) \div 20,
     yucatec_month |-> IndexInto(yucatec_months, ((d + 348) % 365) \div 20)]

(***************************************************************************)
(* Calendar dates (chrono::NaiveDate) as [year, month, day].               *)
(***************************************************************************)
IsLeap(y) == (y % 4 = 0 /\ y % 100 # 0) \/ y % 400 = 0

DaysInMonth(y, m) ==
    IF m = 2 THEN (IF IsLeap(y) THEN 29 ELSE 28)
    ELSE IF m \in {4, 6, 9, 11} THEN 30 ELSE 31

RECURSIVE DaysBeforeMonth(_, _)
DaysBeforeMonth(y, m) ==
    IF m = 1 THEN 0 ELSE DaysBeforeMonth(y, m - 1) + DaysInMonth(y, m - 1)

\* NaiveDate::ordinal: the day of the year, from 1.
ordinal(date) == DaysBeforeMonth(date.year, date.month) + date.day

NextDay(date) ==
    IF date.day < DaysInMonth(date.year, date.month)
    THEN [date EXCEPT !.day = @ + 1]
    ELSE IF date.month < 12
         THEN [year |-> date.year, month |-> date.month + 1, day |-> 1]
         ELSE [year |-> date.year + 1, month |-> 1, day |-> 1]

gregorian_to_jdn_julian(year, month, day) ==
    LET a == TruncDiv(14 - month, 12)
        y == year + 4800 - a
        m == month + 12 * a - 3
    IN day + TruncDiv(153 * m + 2, 5) + 365 * y + TruncDiv(y, 4) - 32083

gregorian_to_jdn(year, month, day) ==
    LET a == TruncDiv(14 - month, 12)
        y == year + 4800 - a
        m == month + 12 * a - 3
    IN day + TruncDiv(153 * m + 2, 5) + 365 * y + TruncDiv(y, 4)
           - TruncDiv(y, 100) + TruncDiv(y, 400) - 32045

CREATION_DATE_JDN == 584283

(***************************************************************************)
(* year_bearer of src/main.rs (the engine iterations import the function   *)
(* of this name from their `astronomical` module).  % is Rust's truncating *)
(* remainder and the index goes through `as usize`.                        *)
(***************************************************************************)
year_bearer_days == <<"Ik'", "Manik'", "Eb'", "K'an">>

year_bearer(jdn) ==
    IndexInto(year_bearer_days, TruncRem(TruncRem(jdn + 348, 260), 4))

\* date.signed_duration_since(mayan_epoch).num_days(), the epoch being the
\* proleptic Gregorian date -3113-08-11, whose Julian Day Number is 584283.
DaysSinceEpoch(date) ==
    gregorian_to_jdn(date.year, date.month, date.day) - CREATION_DATE_JDN

\* next_solstice_or_equinox of src/main.rs (the engine iterations import the
\* function of this name from their `astronomical` module).  The event names
\* are written without their leading emoji.
next_solstice_or_equinox(year, month, day) ==
    LET today  == [year |-> year, month |-> month, day |-> day]
        events == << <<"Spring Equinox", [year |-> year, month |-> 3, day |-> 20]>>,
                     <<"Summer Solstice", [year |-> year, month |-> 6, day |-> 21]>>,
                     <<"Autumn Equinox", [year |-> year, month |-> 9, day |-> 22]>>,
                     <<"Winter Solstice", [year |-> year, month |-> 12, day |-> 21]>> >>
        later  == {i \in 1..4 : ordinal(events[i][2]) >= ordinal(today)}
    IN IF later # {}
       THEN LET i == CHOOSE j \in later : \A k \in later : j <= k
            IN <<events[i][1], ordinal(events[i][2]) - ordinal(today)>>
       ELSE <<"Spring Equinox", 365 - (ordinal(today) - 79)>>

\* next_solstice_or_equinox of iteration 0.0.4: the same scan, and another
\* count for the wrap case, from the month alone.
next_solstice_or_equinox_v0_0_4(year, month, day) ==
    LET today  == [year |-> year, month |-> month, day |-> day]
        events == << <<"Spring Equinox", [year |-> year, month |-> 3, day |-> 20]>>,
                     <<"Summer Solstice", [year |-> year, month |-> 6, day |-> 21]>>,
                     <<"Autumn Equinox", [year |-> year, month |-> 9, day |-> 22]>>,
                     <<"Winter Solstice", [year |-> year, month |-> 12, day |-> 21]>> >>
        later  == {i \in 1..4 : ordinal(events[i][2]) >= ordinal(today)}
    IN IF later # {}
       THEN LET i == CHOOSE j \in later : \A k \in later : j <= k
            IN <<events[i][1], ordinal(events[i][2]) - ordinal(today)>>
       ELSE <<"Spring Equinox", 365 - (month * 31 - 79)>>

(***************************************************************************)
(* moon_phase of src/main.rs (imported from `astronomical` by the engine   *)
(* iterations): moon_age = (jdn as f64 % 29.530588) / 29.530588, then a    *)
(* chain of `<` comparisons.  The age is kept as the exact fraction        *)
(* num / den with den = 29530588 and num = (jdn * 10^6) rem den, the sign  *)
(* of num that of jdn as with f64 %.  num is a multiple of 4 and the       *)
(* thresholds 0.25, 0.5 and 0.75 are not, and 0.1 is not a whole number of *)
(* millionths of a day, so no jdn is closer to a threshold than a          *)
(* millionth of a day, far more than the rounding of f64: the comparisons  *)
(* on the fraction give what the comparisons on the f64 give.  The labels  *)
(* are written without their leading emoji.                                *)
(***************************************************************************)
SYNODIC_MONTH_MICRODAYS == 29530588

\* (a * b) rem SYNODIC_MONTH_MICRODAYS for a, b >= 0, by doubling, so that no
\* intermediate value leaves 32 bits.
RECURSIVE MulMod(_, _)
MulMod(a, b) ==
    IF b = 0 THEN 0
    ELSE LET half == MulMod(a, b \div 2)
         IN (2 * half + (IF b % 2 = 1 THEN a % SYNODIC_MONTH_MICRODAYS ELSE 0))
                % SYNODIC_MONTH_MICRODAYS

moon_age(jdn) ==
    [num |-> IF jdn >= 0 THEN MulMod(jdn, 1000000) ELSE -MulMod(-jdn, 1000000),
     den |-> SYNODIC_MONTH_MICRODAYS]

moon_phase_of_age_inclusive(age) ==
    IF 10 * age.num < age.den THEN "New Moon"
    ELSE IF 4 * age.num <= age.den THEN "First Quarter"
    ELSE IF 2 * age.num < age.den THEN "Full Moon"
    ELSE IF 4 * age.num < 3 * age.den THEN "Last Quarter"
    ELSE "New Moon"

moon_phase_of_age(age) ==
    IF 10 * age.num < age.den THEN "New Moon"
    ELSE IF 4 * age.num < age.den THEN "First Quarter"
    ELSE IF 2 * age.num < age.den THEN "Full Moon"
    ELSE IF 4 * age.num < 3 * age.den THEN "Last Quarter"
    ELSE "New Moon"

moon_phase(jdn) == moon_phase_of_age(moon_age(jdn))

\* venus_phase and next_eclipse of src/main.rs, labels without emoji.
venus_phase(jdn) ==
    LET phase == TruncRem(jdn, 584)
    IN IF phase < 50 THEN "Morning Star (Heliacal Rise)"
       ELSE IF phase < 215 THEN "Superior Conjunction (Invisible)"
       ELSE IF phase < 265 THEN "Evening Star (Heliacal Set)"
       ELSE "Inferior Conjunction (Between Earth & Sun)"

next_eclipse(jdn) ==
    LET days_since_last_eclipse == TruncRem(jdn, 6585)
    IN IF days_since_last_eclipse < 15 THEN "Lunar Eclipse Soon!"
       ELSE IF days_since_last_eclipse < 30 THEN "Solar Eclipse Soon!"
       ELSE "No Eclipse Imminent"

\* historical_event of src/main.rs: the description of the first event of
\* the table whose date has the given JDN, None when there is none.
historical_events ==
    << <<-3113, 8, 11, "The Maya creation date (0.0.0.0.0)">>,
       <<292, 1, 1, "Earliest Long Count Date Found">>,
       <<378, 1, 16, "Teotihuacan Influence Over Tikal Begins">>,
       <<426, 1, 1, "Dynasty of Copan Founded">>,
       <<562, 1, 1, "Tikal Defeated by Calakmul">>,
       <<682, 6, 3, "King Jasaw Chan K'awiil I Crowned in Tikal">>,
       <<751, 1, 1, "Uxmal Emerges as a Major Power">>,
       <<869, 12, 1, "Tikal Abandoned">>,
       <<987, 1, 1, "Toltec-Maya Rule in Chichen Itza Begins">>,
       <<1200, 1, 1, "Decline of Chichen Itza">>,
       <<1511, 8, 1, "Spanish Make First Contact with the Maya">>,
       <<1697, 3, 13, "Spanish Conquer the Last Maya City, Tayasal">> >>

historical_event(jdn) ==
    LET matching == {i \in 1..Len(historical_events) :
                       gregorian_to_jdn(historical_events[i][1],
                                        historical_events[i][2],
                                        historical_events[i][3]) = jdn}
    IN IF matching = {} THEN [some |-> FALSE]
       ELSE LET first == CHOOSE i \in matching : \A j \in matching : i <= j
            IN [some |-> TRUE, value |-> historical_events[first][4]]

(***************************************************************************)
(* CalendarData::new_from_components: the snapshot assembled from the      *)
(* calendar components of a day offset, every other field at its default.  *)
(***************************************************************************)
DefaultDate == [year |-> 2000, month |-> 1, day |-> 1]

new_from_components(long_count, tzolkin, haab, d) ==
    [long_count |-> long_count, tzolkin |-> tzolkin, haab |-> haab,
     moon_phase |-> "", venus_phase |-> "", year_bearer |-> "",
     next_solstice |-> <<"", 0>>, eclipse_status |-> "",
     historical_event |-> [some |-> FALSE],
     gregorian_date |-> DefaultDate,
     julian_day_number |-> 0, days_since_creation |-> d]

\* CalendarData::new: the snapshot of the wall-clock date the application
\* starts on.
CalendarData_new(date) ==
    LET days_since_creation == DaysSinceEpoch(date)
    IN [long_count |-> from_days(days_since_creation),
        tzolkin |-> date_utils_tzolkin_date(days_since_creation),
        haab |-> date_utils_haab_date(days_since_creation),
        moon_phase |-> moon_phase(days_since_creation),
        venus_phase |-> venus_phase(days_since_creation),
        year_bearer |-> year_bearer(days_since_creation),
        next_solstice |-> <<"", 0>>,
        eclipse_status |-> next_eclipse(days_since_creation),
        historical_event |-> historical_event(days_since_creation),
        gregorian_date |-> date,
        julian_day_number |-> days_since_creation + CREATION_DATE_JDN,
        days_since_creation |-> days_since_creation]

(***************************************************************************)
(* The engine at rest: the state MayanCalendar::new leaves behind, before  *)
(* any call.  Worker threads are 1..NumWorkers; thread 1 is also the UI    *)
(* thread.  The wall clock starts on StartDate and moves forward by at     *)
(* most MaxClockDays days.                                                 *)
(***************************************************************************)
NumWorkers == 2
MaxCount == 2
MaxCalls == 2
MaxClockDays == 2
MaxMicros == 1

Threads == 1..NumWorkers

StartDate == [year |-> 2024, month |-> 12, day |-> 21]

RECURSIVE DatePlus(_, _)
DatePlus(date, n) == IF n = 0 THEN date ELSE DatePlus(NextDay(date), n - 1)

RangeStarts == {-1, 0}

EngineDays == {s + i : s \in RangeStarts, i \in 0..(MaxCount - 1)}

ClockDays == {DaysSinceEpoch(DatePlus(StartDate, k)) : k \in 0..MaxClockDays}

NoData == [found |-> FALSE]

NoJob == [kind |-> "none", index |-> 0]

IdleThread == [pc |-> "idle", job |-> NoJob, days |-> 0, data |-> NoData]

NoCall == [seq |-> 0, quiet |-> FALSE, absent |-> FALSE, hits0 |-> 0, misses0 |-> 0]

(***************************************************************************)
(* The glyph side at rest: GlyphRenderer::new leaves an empty TextureCache. *)
(* The glyphs are one Tzolk'in day name and one Haab' month name; preload  *)
(* walks them in PreloadOrder (paths.extend of the Tzolk'in table, then of *)
(* the Haab' table).                                                       *)
(***************************************************************************)
PreloadOrder == <<"imix", "pop">>

AssetKeys == {PreloadOrder[i] : i \in 1..Len(PreloadOrder)}

FileStates == {"ok", "wrong_size", "corrupt", "missing"}

NoTexture == [id |-> 0]

IdleGlyphThread == [pc |-> "idle", key |-> "", texture |-> NoTexture, waited |-> FALSE]

NoPreload == [state |-> "none", todo |-> << >>, error |-> "none"]

AssetAtRest ==
    /\ textures = [k \in AssetKeys |-> NoTexture]
    /\ assetLock = [writer |-> 0, readers |-> {}]
    /\ gth = [t \in Threads |-> IdleGlyphThread]
    /\ preload = NoPreload
    /\ app = "none"
    /\ handles = {}
    /\ attempts = [k \in AssetKeys |-> "none"]
    /\ glog = << >>

\* CalendarData::new of iteration 0.6.2, whose CalendarData has two fields,
\* and its calculate_new_data, which leaves its argument unused.
CalendarData_new_v0_6_2 ==
    [long_count |-> from_days(1000), days_since_creation |-> 1000]

calculate_new_data_v0_6_2(d) == CalendarData_new_v0_6_2

CalculatorAtRest ==
    /\ lock = [writer |-> 0, readers |-> {}]
    /\ metrics = [calculation_time |-> 0, glyph_load_time |-> 0, render_time |-> 0,
                  cache_hits |-> 0, cache_misses |-> 0]
    /\ now = StartDate
    /\ th = [t \in Threads |-> IdleThread]
    /\ range = [state |-> "idle", start |-> 0, count |-> 0, todo |-> {}, out |-> << >>]
    /\ calendar_data = CalendarData_new(StartDate)
    /\ last_calendar_update = StartDate
    /\ callInfo = [t \in Threads |-> NoCall]
    /\ calls = [started |-> 0, direct |-> 0, timed |-> 0]
    /\ hist = << >>
    /\ computeCount = [d \in EngineDays \cup ClockDays |-> 0]
    /\ returned = {}
    /\ finishOrder = << >>

EngineAtRest ==
    /\ files = [k \in AssetKeys |-> "ok"]
    /\ AssetAtRest
    /\ CalculatorAtRest

(***************************************************************************)
(* SpecMath: a day offset is drawn from the tested range and one of the    *)
(* transforms is applied to it.  The range -RangeLo .. RangeHi is sampled  *)
(* in windows of Window days on both sides of every multiple of Stride.    *)
(***************************************************************************)
RangeLo == 200000
RangeHi == 2000000
Stride == 7200
Window == 20

AgesAroundThresholds == {0, 9, 10, 11, 24, 25, 26, 49, 50, 51, 74, 75, 76, 99}

DayOffsets ==
    {k * Stride + j : k \in -(RangeLo \div Stride) .. (RangeHi \div Stride),
                      j \in -Window .. Window}
        \cap (-RangeLo .. RangeHi)

InitMath ==
    /\ build = "math"
    /\ days \in DayOffsets
    /\ mathOut = [fn |-> "none"]
    /\ capacity = 1
    /\ lru = << >>
    /\ log = << >>
    /\ EngineAtRest

LongCountRoundTrip ==
    /\ mathOut.fn = "none"
    /\ mathOut' = [fn |-> "long_count", lc |-> from_days(days),
                   back |-> to_days(from_days(days))]
    /\ UNCHANGED <<assetVars, build, days, cacheVars, engineVars, histVars>>

LongCountMain ==
    /\ mathOut.fn = "none"
    /\ mathOut' = [fn |-> "long_count_main", lc |-> long_count_main(days)]
    /\ UNCHANGED <<assetVars, build, days, cacheVars, engineVars, histVars>>

TzolkinMain ==
    /\ mathOut.fn = "none"
    /\ mathOut' = [fn |-> "tzolkin_date", file |-> "main", tz |-> tzolkin_date_main(days)]
    /\ UNCHANGED <<assetVars, build, days, cacheVars, engineVars, histVars>>

TzolkinOptim ==
    /\ mathOut.fn = "none"
    /\ mathOut' = [fn |-> "tzolkin_date", file |-> "optim", tz |-> tzolkin_date_optim(days)]
    /\ UNCHANGED <<assetVars, build, days, cacheVars, engineVars, histVars>>

HaabMain ==
    /\ mathOut.fn = "none"
    /\ mathOut' = [fn |-> "haab_date", file |-> "main", haab |-> haab_date_main(days)]
    /\ UNCHANGED <<assetVars, build, days, cacheVars, engineVars, histVars>>

HaabOptim ==
    /\ mathOut.fn = "none"
    /\ mathOut' = [fn |-> "haab_date", file |-> "optim", haab |-> haab_date_optim(days)]
    /\ UNCHANGED <<assetVars, build, days, cacheVars, engineVars, histVars>>

YearBearer ==
    /\ mathOut.fn = "none"
    /\ mathOut' = [fn |-> "year_bearer", name |-> year_bearer(days)]
    /\ UNCHANGED <<assetVars, build, days, cacheVars, engineVars, histVars>>

MoonPhase ==
    /\ mathOut.fn = "none"
    /\ mathOut' = [fn |-> "moon_phase", age |-> moon_age(days), phase |-> moon_phase(days)]
    /\ UNCHANGED <<assetVars, build, days, cacheVars, engineVars, histVars>>

\* The chain of comparisons of moon_phase, applied to the ages around its
\* thresholds, given in hundredths of a cycle.
MoonPhaseOfAge(hundredths) ==
    /\ mathOut.fn = "none"
    /\ mathOut' = [fn |-> "moon_phase_of_age", age |-> [num |-> hundredths, den |-> 100],
                   phase |-> moon_phase_of_age([num |-> hundredths, den |-> 100])]
    /\ UNCHANGED <<assetVars, build, days, cacheVars, engineVars, histVars>>

\* tests::test_calendar_round of 0.0.5 for any day offset: both dates now
\* and one Calendar Round later.
CalendarRound ==
    /\ mathOut.fn = "none"
    /\ mathOut' = [fn |-> "calendar_round",
                   tzolkin1 |-> TzolkinDate_from_days(days),
                   haab1 |-> HaabDate_from_days(days),
                   tzolkin2 |-> TzolkinDate_from_days(days + CALENDAR_ROUND),
                   haab2 |-> HaabDate_from_days(days + CALENDAR_ROUND)]
    /\ UNCHANGED <<assetVars, build, days, cacheVars, engineVars, histVars>>

NextMath ==
    \/ CalendarRound
    \/ MoonPhase
    \/ \E hundredths \in AgesAroundThresholds : MoonPhaseOfAge(hundredths)
    \/ YearBearer
    \/ LongCountRoundTrip
    \/ LongCountMain
    \/ TzolkinMain
    \/ TzolkinOptim
    \/ HaabMain
    \/ HaabOptim

SpecMath == InitMath /\ [][NextMath]_vars

(***************************************************************************)
(* C8: for every day offset d of the range, converting d to a Long Count   *)
(* and back gives d: LongCount::from_days(d).to_days() = d.                *)
(***************************************************************************)
C8_RoundTrip ==
    mathOut.fn = "long_count" => mathOut.back = days

C8_Witness ==
    /\ mathOut.fn = "long_count"
    /\ days < 0
    /\ mathOut.lc.kin < 0
    /\ mathOut.back = days

(***************************************************************************)
(* C9: for every day offset d of the range, negative d included, the       *)
(* Tzolkin date of d has its number in 1..13 and its day-name index in     *)
(* 0..19, so the lookup in the 20-entry day-name table stays in bounds.    *)
(***************************************************************************)
C9_TzolkinInRange ==
    mathOut.fn = "tzolkin_date" =>
        /\ mathOut.tz.number \in 1..13
        /\ mathOut.tz.index \in 0..19
        /\ mathOut.tz.yucatec_name # "panic"

(***************************************************************************)
(* C10: for every day offset d of the range, negative d included, the Haab *)
(* date of d has its day in 0..19 and its month index in 0..18, so the     *)
(* lookup in the 19-entry month-name table stays in bounds.                *)
(***************************************************************************)
C10_HaabInRange ==
    mathOut.fn = "haab_date" =>
        /\ mathOut.haab.day \in 0..19
        /\ mathOut.haab.month_index \in 0..18
        /\ mathOut.haab.yucatec_month # "panic"

(***************************************************************************)
(* C11: for every day offset, negative ones included, every component of   *)
(* the Long Count is a non-negative integer, and katun, tun, uinal and kin *)
(* are each in 0..19.                                                      *)
(***************************************************************************)
C11_LongCountComponents ==
    mathOut.fn \in {"long_count", "long_count_main"} =>
        /\ mathOut.lc.baktun >= 0
        /\ mathOut.lc.katun \in 0..19
        /\ mathOut.lc.tun \in 0..19
        /\ mathOut.lc.uinal \in 0..19
        /\ mathOut.lc.kin \in 0..19

(***************************************************************************)
(* C12 as stated: the Long Count computed for day offset 0 is 13.0.0.0.0   *)
(* (and day offset 0 is Julian Day Number 584283).                         *)
(***************************************************************************)
LongCountZero == [baktun |-> 0, katun |-> 0, tun |-> 0, uinal |-> 0, kin |-> 0]

LongCountThirteen == [baktun |-> 13, katun |-> 0, tun |-> 0, uinal |-> 0, kin |-> 0]

KeysOf(l) == {l[i].key : i \in 1..Len(l)}

Without(l, k) == SelectSeq(l, LAMBDA e : e.key # k)

Find(l, k) ==
    IF k \in KeysOf(l)
    THEN [found |-> TRUE, data |-> (CHOOSE e \in {l[i] : i \in 1..Len(l)} : e.key = k).data]
    ELSE [found |-> FALSE]

put_calendar_data_evict_newest(l, cap, k, data) ==
    IF k \in KeysOf(l) \/ Len(l) < cap
    THEN <<[key |-> k, data |-> data]>> \o Without(l, k)
    ELSE <<[key |-> k, data |-> data]>> \o SubSeq(l, 2, Len(l))

put_calendar_data_unbounded(l, cap, k, data) ==
    <<[key |-> k, data |-> data]>> \o Without(l, k)

put_calendar_data(l, cap, k, data) ==
    IF k \in KeysOf(l)
    THEN <<[key |-> k, data |-> data]>> \o Without(l, k)
    ELSE IF Len(l) < cap
         THEN <<[key |-> k, data |-> data]>> \o l
         ELSE <<[key |-> k, data |-> data]>> \o SubSeq(l, 1, Len(l) - 1)

\* LruCache::get(&days).cloned()
get_calendar_data_get(l, k) ==
    IF k \in KeysOf(l)
    THEN [cache |-> <<[key |-> k, data |-> Find(l, k).data]>> \o Without(l, k),
          result |-> Find(l, k)]
    ELSE [cache |-> l, result |-> [found |-> FALSE]]

\* LruCache::peek(&days).cloned()
get_calendar_data_peek(l, k) == [cache |-> l, result |-> Find(l, k)]

get_calendar_data(b, l, k) ==
    IF b = "v0_2_3" THEN get_calendar_data_peek(l, k) ELSE get_calendar_data_get(l, k)

(***************************************************************************)
(* SpecCache: one caller constructs a CalendarCache of some capacity >= 1  *)
(* (the constructor takes a NonZeroUsize) and makes up to MaxOps calls of  *)
(* get_calendar_data and put_calendar_data with keys 0..MaxCapacity.       *)
(***************************************************************************)
MaxCapacity == 2

CacheKeys == 0..MaxCapacity

MaxOps == MaxCapacity + 3

Builds == {"v0_2_3", "v0_4_0"}

SnapshotOf(d) ==
    new_from_components(from_days(d), tzolkin_date_main(d), haab_date_main(d), d)

InitCache ==
    /\ build \in Builds
    /\ capacity \in 1..MaxCapacity
    /\ lru = << >>
    /\ log = << >>
    /\ days = 0
    /\ mathOut = [fn |-> "none"]
    /\ EngineAtRest

PutOp(k) ==
    /\ Len(log) < MaxOps
    /\ lru' = put_calendar_data(lru, capacity, k, SnapshotOf(k))
    /\ log' = Append(log, [op |-> "put", key |-> k, hit |-> FALSE])
    /\ UNCHANGED <<assetVars, build, capacity, mathVars, engineVars, histVars>>

GetOp(k) ==
    /\ Len(log) < MaxOps
    /\ LET r == get_calendar_data(build, lru, k)
       IN /\ lru' = r.cache
          /\ log' = Append(log, [op |-> "get", key |-> k, hit |-> r.result.found])
    /\ UNCHANGED <<assetVars, build, capacity, mathVars, engineVars, histVars>>

NextCache ==
    \/ \E k \in CacheKeys : PutOp(k)
    \/ \E k \in CacheKeys : GetOp(k)

SpecCache == InitCache /\ [][NextCache]_vars

\* The index in the log of the last put of k or last get of k that hit; 0 if none.
LastUse(lg, k) ==
    LET uses == {i \in 1..Len(lg) : lg[i].key = k /\ (lg[i].op = "put" \/ lg[i].hit)}
    IN IF uses = {} THEN 0 ELSE CHOOSE i \in uses : \A j \in uses : j <= i

\* The log starts with capacity + 1 puts of distinct keys, and every later
\* call is a get.
FilledThenRead ==
    /\ Len(log) > capacity + 1
    /\ \A i \in 1..(capacity + 1) : log[i].op = "put"
    /\ \A i, j \in 1..(capacity + 1) : i # j => log[i].key # log[j].key
    /\ \A i \in (capacity + 2)..Len(log) : log[i].op = "get"

(***************************************************************************)
(* C3: for a CalendarCache of capacity N >= 1, after N+1 distinct day      *)
(* offsets are put in order with no get in between, a get of the first     *)
(* offset put is a miss and a get of each of the last N is a hit.          *)
(***************************************************************************)
C3_EvictionOfFirst ==
    FilledThenRead =>
        \A i \in (capacity + 2)..Len(log) :
            /\ log[i].key = log[1].key => ~log[i].hit
            /\ (\E j \in 2..(capacity + 1) : log[i].key = log[j].key) => log[i].hit

C3_Witness ==
    /\ FilledThenRead
    /\ capacity = MaxCapacity
    /\ \E i, j \in (capacity + 2)..Len(log) :
          /\ log[i].key = log[1].key /\ ~log[i].hit
          /\ log[j].key = log[2].key /\ log[j].hit

(***************************************************************************)
(* C4: a get that hits makes its key the most recently used: when a put of *)
(* a new key finds the cache full, the entry it evicts is the one whose    *)
(* last get or put is the oldest.                                          *)
(***************************************************************************)
C4_EvictsOldestUse ==
    [][\A e \in KeysOf(lru) \ KeysOf(lru') :
          \A r \in KeysOf(lru) : LastUse(log, e) <= LastUse(log, r)]_vars

(***************************************************************************)
(* Metrics: each record_* call is one fetch_add on one atomic counter.     *)
(***************************************************************************)
\* A load followed by a store in place of fetch_add: an increment that
\* meets another one is lost.
record_cache_hit_load_then_store(m) == [m EXCEPT !.cache_hits = IF @ = 0 THEN 1 ELSE @]

record_cache_hit(m) == [m EXCEPT !.cache_hits = @ + 1]

record_cache_miss_as_hit(m) == [m EXCEPT !.cache_hits = @ + 1]

record_cache_miss_unrecorded(m) == m

record_cache_miss(m) == [m EXCEPT !.cache_misses = @ + 1]

record_calculation_store(m, micros) == [m EXCEPT !.calculation_time = micros]

record_calculation(m, micros) == [m EXCEPT !.calculation_time = @ + micros]

(***************************************************************************)
(* The RwLock around the CalendarCache.  read() waits while a writer holds *)
(* the lock; write() waits while anyone holds it.  A guard is released     *)
(* when it goes out of scope or is dropped.                                *)
(***************************************************************************)
CanRead(l) == l.writer = 0

CanWrite_always(l) == TRUE

CanWrite(l) == l.writer = 0 /\ l.readers = {}

ReadGuard(l, t) == [l EXCEPT !.readers = @ \cup {t}]

WriteGuard(l, t) == [l EXCEPT !.writer = t]

DropReadGuard_kept(l, t) == l

DropReadGuard(l, t) == [l EXCEPT !.readers = @ \ {t}]

DropWriteGuard(l, t) == [l EXCEPT !.writer = 0]

Holds(l, t) == l.writer = t \/ t \in l.readers

(***************************************************************************)
(* The snapshot computed for a day offset.                                 *)
(*   calculate_single_date (0.2.3) asks next_solstice_or_equinox about the *)
(*   fixed date 2000-01-01 and leaves the Gregorian fields at the defaults *)
(*   of new_from_components;                                               *)
(*   calculate_new_data (0.4.0, 0.5.1) asks it about the wall-clock date   *)
(*   and stores that date as the snapshot's gregorian_date.                *)
(***************************************************************************)
calculate_single_date_data(d) ==
    [new_from_components(from_days(d), date_utils_tzolkin_date(d),
                         date_utils_haab_date(d), d)
        EXCEPT !.moon_phase = moon_phase(d),
               !.venus_phase = venus_phase(d),
               !.year_bearer = year_bearer(d),
               !.next_solstice = next_solstice_or_equinox(2000, 1, 1),
               !.eclipse_status = next_eclipse(d),
               !.historical_event = historical_event(d)]

calculate_new_data(d, current_date) ==
    [new_from_components(from_days(d), date_utils_tzolkin_date(d),
                         date_utils_haab_date(d), d)
        EXCEPT !.moon_phase = moon_phase(d),
               !.venus_phase = venus_phase(d),
               !.year_bearer = year_bearer(d),
               !.next_solstice = next_solstice_or_equinox(current_date.year,
                                     current_date.month, current_date.day),
               !.eclipse_status = next_eclipse(d),
               !.historical_event = historical_event(d),
               !.gregorian_date = current_date,
               !.julian_day_number = d + CREATION_DATE_JDN]

(***************************************************************************)
(* collect() of an indexed parallel iterator: the result of the task with  *)
(* index i goes to position i of the vector, whenever the task finishes.   *)
(***************************************************************************)
StoreResult_in_completion_order(out, i, data) ==
    LET free == {j \in 1..Len(out) : out[j] = NoData}
    IN [out EXCEPT ![CHOOSE j \in free : \A k \in free : j <= k] = data]

StoreResult(out, i, data) == [out EXCEPT ![i + 1] = data]

(***************************************************************************)
(* History kept for the properties: a call begins, and later returns data. *)
(***************************************************************************)
BeginHistory(t, d, direct) ==
    /\ callInfo' = [callInfo EXCEPT ![t] =
                      [seq |-> calls.started + 1,
                       quiet |-> \A u \in Threads \ {t} : th[u].pc = "idle",
                       absent |-> d \notin KeysOf(lru),
                       hits0 |-> metrics.cache_hits,
                       misses0 |-> metrics.cache_misses]]
    /\ calls' = [started |-> calls.started + 1,
                 direct |-> calls.direct + (IF direct THEN 1 ELSE 0),
                 timed |-> calls.timed]

Completed(t) ==
    [days |-> th[t].days, seq |-> callInfo[t].seq, quiet |-> callInfo[t].quiet,
     absent |-> callInfo[t].absent, last |-> calls.started = callInfo[t].seq,
     hits |-> metrics'.cache_hits - callInfo[t].hits0,
     misses |-> metrics'.cache_misses - callInfo[t].misses0]

Return(t, data) ==
    /\ th' = [th EXCEPT ![t] = IdleThread]
    /\ returned' = returned \cup {[days |-> th[t].days, data |-> data]}
    /\ hist' = IF Len(hist) = 2 THEN <<hist[2], Completed(t)>>
               ELSE Append(hist, Completed(t))
    /\ IF th[t].job.kind = "task"
       THEN /\ range' = [range EXCEPT !.out = StoreResult(@, th[t].job.index, data)]
            /\ finishOrder' = Append(finishOrder, th[t].job.index)
       ELSE UNCHANGED <<range, finishOrder>>

Evicted(l, l2) == KeysOf(l) \ KeysOf(l2)

(***************************************************************************)
(* Spec, iteration 0.2.3: ParallelCalendarCalculator.  A call of           *)
(* calculate_single_date(d) is made directly (up to MaxCalls times) or as  *)
(* a task of calculate_date_range; the worker threads interleave freely.   *)
(*   lookup    holding the read guard, about to call get_calendar_data     *)
(*   missed    read guard dropped, about to record the miss                *)
(*   compute   about to compute the snapshot                               *)
(*   computed  snapshot in hand, waiting for the write guard               *)
(*   put       holding the write guard, about to call put_calendar_data    *)
(***************************************************************************)
BeginSingleDate(t, d, job) ==
    /\ build = "v0_2_3"
    /\ th[t].pc = "idle"
    /\ CanRead(lock)
    /\ lock' = ReadGuard(lock, t)
    /\ th' = [th EXCEPT ![t] = [pc |-> "lookup", job |-> job, days |-> d, data |-> NoData]]
    /\ BeginHistory(t, d, job.kind = "call")
    /\ UNCHANGED <<assetVars, build, mathVars, cacheVars, metrics, now, last_calendar_update, calendar_data,
                   hist, computeCount, returned, finishOrder>>

CallSingleDate(t, d) ==
    /\ calls.direct < MaxCalls
    /\ BeginSingleDate(t, d, [kind |-> "call", index |-> 0])
    /\ UNCHANGED range

calculate_date_range(start_days, count) ==
    /\ build = "v0_2_3"
    /\ range.state = "idle"
    /\ range' = [state |-> "running", start |-> start_days, count |-> count,
                 todo |-> 0..(count - 1), out |-> [i \in 1..count |-> NoData]]
    /\ UNCHANGED <<assetVars, build, mathVars, cacheVars, lock, metrics, now, last_calendar_update, th,
                   calendar_data, histVars>>

PickTask(t, offset) ==
    /\ range.state = "running"
    /\ offset \in range.todo
    /\ BeginSingleDate(t, range.start + offset, [kind |-> "task", index |-> offset])
    /\ range' = [range EXCEPT !.todo = @ \ {offset}]

Lookup(t) ==
    /\ th[t].pc = "lookup"
    /\ LET r == get_calendar_data(build, lru, th[t].days)
       IN /\ lru' = r.cache
          /\ IF r.result.found
             THEN /\ metrics' = record_cache_hit(metrics)
                  /\ lock' = DropReadGuard(lock, t)
                  /\ Return(t, r.result.data)
             ELSE /\ lock' = DropReadGuard(lock, t)
                  /\ th' = [th EXCEPT ![t].pc = "missed"]
                  /\ UNCHANGED <<metrics, range, hist, returned, finishOrder>>
    /\ UNCHANGED <<assetVars, build, mathVars, capacity, log, now, last_calendar_update, calendar_data,
                   callInfo, calls, computeCount>>

RecordMiss(t) ==
    /\ th[t].pc = "missed"
    /\ metrics' = record_cache_miss(metrics)
    /\ th' = [th EXCEPT ![t].pc = "compute"]
    /\ UNCHANGED <<assetVars, build, mathVars, cacheVars, lock, now, last_calendar_update, range, calendar_data, histVars>>

Compute(t) ==
    /\ th[t].pc = "compute"
    /\ th' = [th EXCEPT ![t].pc = "computed",
                        ![t].data = calculate_single_date_data(th[t].days)]
    /\ computeCount' = [computeCount EXCEPT ![th[t].days] = @ + 1]
    /\ UNCHANGED <<assetVars, build, mathVars, cacheVars, lock, metrics, now, last_calendar_update, range,
                   calendar_data, callInfo, calls, hist, returned, finishOrder>>

AcquireWrite(t) ==
    /\ th[t].pc = "computed"
    /\ CanWrite(lock)
    /\ lock' = WriteGuard(lock, t)
    /\ th' = [th EXCEPT ![t].pc = "put"]
    /\ UNCHANGED <<assetVars, build, mathVars, cacheVars, metrics, now, last_calendar_update, range, calendar_data, histVars>>

Put(t) ==
    /\ th[t].pc = "put"
    /\ lru' = put_calendar_data(lru, capacity, th[t].days, th[t].data)
    /\ lock' = DropWriteGuard(lock, t)
    /\ computeCount' = [d \in DOMAIN computeCount |->
                          IF d \in Evicted(lru, lru') THEN 0 ELSE computeCount[d]]
    /\ UNCHANGED metrics
    /\ Return(t, th[t].data)
    /\ UNCHANGED <<assetVars, build, mathVars, capacity, log, now, last_calendar_update, calendar_data, callInfo, calls>>

FinishRange(micros) ==
    /\ range.state = "running"
    /\ \A i \in 1..range.count : range.out[i] # NoData
    /\ metrics' = record_calculation(metrics, micros)
    /\ calls' = [calls EXCEPT !.timed = @ + 1]
    /\ range' = [range EXCEPT !.state = "returned"]
    /\ UNCHANGED <<assetVars, build, mathVars, cacheVars, lock, now, last_calendar_update, th, calendar_data,
                   callInfo, hist, computeCount, returned, finishOrder>>

(***************************************************************************)
(* Spec, iteration 0.4.0: MayanCalendar::update_calendar_data, run by the  *)
(* UI thread once a second has passed since the last update (seconds are   *)
(* not modelled: a frame that comes sooner changes nothing), and           *)
(* calculate_new_data, which is public and may be called for any offset.   *)
(*   ui_lookup   holding the write guard, about to call get_calendar_data  *)
(*   ui_compute  guard dropped, about to call calculate_new_data           *)
(*   ui_store    snapshot in hand, about to take the write guard and put   *)
(***************************************************************************)
UiThread == 1

\* The date `now` that the running call read on entry: th[UiThread].days is
\* its day offset.
DateRead ==
    CHOOSE date \in {DatePlus(StartDate, k) : k \in 0..MaxClockDays} :
        DaysSinceEpoch(date) = th[UiThread].days

update_calendar_data ==
    /\ build = "v0_4_0"
    /\ th[UiThread].pc = "idle"
    /\ CanWrite(lock)
    /\ lock' = WriteGuard(lock, UiThread)
    /\ th' = [th EXCEPT ![UiThread] = [pc |-> "ui_lookup", job |-> [kind |-> "ui", index |-> 0],
                                       days |-> DaysSinceEpoch(now), data |-> NoData]]
    /\ BeginHistory(UiThread, DaysSinceEpoch(now), TRUE)
    /\ UNCHANGED <<assetVars, build, mathVars, cacheVars, metrics, now, last_calendar_update,
                   range, calendar_data, hist, computeCount, returned, finishOrder>>

UpdateBegin ==
    /\ calls.direct < MaxCalls
    /\ update_calendar_data

UpdateLookup ==
    /\ th[UiThread].pc = "ui_lookup"
    /\ LET r == get_calendar_data(build, lru, th[UiThread].days)
       IN /\ lru' = r.cache
          /\ IF r.result.found
             THEN /\ calendar_data' = r.result.data
                  /\ metrics' = record_cache_hit(metrics)
                  /\ lock' = DropWriteGuard(lock, UiThread)
                  /\ last_calendar_update' = DateRead
                  /\ Return(UiThread, r.result.data)
             ELSE /\ lock' = DropWriteGuard(lock, UiThread)
                  /\ th' = [th EXCEPT ![UiThread].pc = "ui_compute"]
                  /\ UNCHANGED <<metrics, range, calendar_data, last_calendar_update, hist,
                                 returned, finishOrder>>
    /\ UNCHANGED <<assetVars, build, mathVars, capacity, log, now, callInfo, calls, computeCount>>

UpdateCompute ==
    /\ th[UiThread].pc = "ui_compute"
    /\ th' = [th EXCEPT ![UiThread].pc = "ui_store",
                        ![UiThread].data = calculate_new_data(th[UiThread].days, now)]
    /\ computeCount' = [computeCount EXCEPT ![th[UiThread].days] = @ + 1]
    /\ UNCHANGED <<assetVars, build, mathVars, cacheVars, lock, metrics, now, last_calendar_update, range,
                   calendar_data, callInfo, calls, hist, returned, finishOrder>>

UpdateStore ==
    /\ th[UiThread].pc = "ui_store"
    /\ CanWrite(lock)
    /\ lru' = put_calendar_data(lru, capacity, th[UiThread].days, th[UiThread].data)
    /\ calendar_data' = th[UiThread].data
    /\ metrics' = record_cache_miss(metrics)
    /\ computeCount' = [d \in DOMAIN computeCount |->
                          IF d \in Evicted(lru, lru') THEN 0 ELSE computeCount[d]]
    /\ last_calendar_update' = DateRead
    /\ Return(UiThread, th[UiThread].data)
    /\ UNCHANGED <<assetVars, build, mathVars, capacity, log, lock, now, callInfo, calls>>

CalculateNewData(d) ==
    /\ build = "v0_4_0"
    /\ returned' = returned \cup {[days |-> d, data |-> calculate_new_data(d, now)]}
    /\ UNCHANGED <<assetVars, build, mathVars, cacheVars, engineVars, callInfo, calls, hist,
                   computeCount, finishOrder>>

\* The iterations whose refresh reads the wall clock.
ClockBuilds == {"v0_0_6", "v0_1_9", "v0_4_0"}

ClockAdvance ==
    /\ build \in ClockBuilds
    /\ now # DatePlus(StartDate, MaxClockDays)
    /\ now' = NextDay(now)
    /\ UNCHANGED <<assetVars, build, mathVars, cacheVars, lock, metrics, th, range,
                   calendar_data, last_calendar_update, histVars>>

\* Iteration 0.6.2: MayanCalendar::new builds a cache of capacity 100 that
\* no method reads or writes; calculate_new_data is public and may be
\* called for any offset.
InitPlaceholder ==
    /\ build = "v0_6_2"
    /\ capacity = 100
    /\ lru = << >>
    /\ log = << >>
    /\ days = 0
    /\ mathOut = [fn |-> "none"]
    /\ EngineAtRest

PlaceholderDays == EngineDays \cup {CalendarData_new_v0_6_2.days_since_creation}

CalculateNewData_v0_6_2(d) ==
    /\ build = "v0_6_2"
    /\ mathOut.fn = "none"
    /\ mathOut' = [fn |-> "calculate_new_data", days |-> d,
                   data |-> calculate_new_data_v0_6_2(d)]
    /\ UNCHANGED <<assetVars, build, days, cacheVars, engineVars, histVars>>

Init == InitCache \/ InitPlaceholder

Next ==
    \/ \E d \in PlaceholderDays : CalculateNewData_v0_6_2(d)
    \/ \E t \in Threads, d \in EngineDays : CallSingleDate(t, d)
    \/ \E s \in RangeStarts, c \in 0..MaxCount : calculate_date_range(s, c)
    \/ \E t \in Threads, i \in 0..(MaxCount - 1) : PickTask(t, i)
    \/ \E t \in Threads : Lookup(t)
    \/ \E t \in Threads : RecordMiss(t)
    \/ \E t \in Threads : Compute(t)
    \/ \E t \in Threads : AcquireWrite(t)
    \/ \E t \in Threads : Put(t)
    \/ \E micros \in 0..MaxMicros : FinishRange(micros)
    \/ UpdateBegin
    \/ UpdateLookup
    \/ UpdateCompute
    \/ UpdateStore
    \/ \E d \in EngineDays : CalculateNewData(d)
    \/ ClockAdvance

Spec == Init /\ [][Next]_vars

\* The snapshot a call for day offset d is to return, per iteration: 0.2.3
\* computes it from d alone, 0.4.0 also from the wall-clock date.
RangeSnapshot(d) == calculate_single_date_data(d)

(***************************************************************************)
(* C1: whatever the interleaving of the worker threads, the vector that    *)
(* calculate_date_range(start, count) returns has exactly count elements   *)
(* and its element i is the snapshot for day offset start + i.             *)
(***************************************************************************)
C1_RangeInOrder ==
    range.state = "returned" =>
        /\ Len(range.out) = range.count
        /\ \A i \in 0..(range.count - 1) : range.out[i + 1] = RangeSnapshot(range.start + i)

\* A range of two tasks has returned, and the task with index 1 finished first.
C1_Witness ==
    /\ range.state = "returned"
    /\ range.count = 2
    /\ finishOrder = <<1, 0>>
    /\ range.out[1] = RangeSnapshot(range.start)
    /\ range.out[2] = RangeSnapshot(range.start + 1)

(***************************************************************************)
(* C2: when the cache does not hold d and calculateSingleDate(d) is called *)
(* twice in a row with no other call in between, the first call adds one   *)
(* to the miss counter and nothing to the hit counter and the second adds  *)
(* one to the hit counter and nothing to the miss counter.                 *)
(***************************************************************************)
TwoInARow ==
    /\ Len(hist) = 2
    /\ hist[1].days = hist[2].days
    /\ hist[1].absent
    /\ hist[1].quiet /\ hist[2].quiet
    /\ hist[2].seq = hist[1].seq + 1
    /\ hist[2].last

C2_MissThenHit ==
    TwoInARow =>
        /\ hist[1].misses = 1 /\ hist[1].hits = 0
        /\ hist[2].hits = 1 /\ hist[2].misses = 0

C2_Witness ==
    /\ TwoInARow
    /\ metrics.cache_misses = 1
    /\ metrics.cache_hits = 1
    /\ hist[2].hits = 1

(***************************************************************************)
(* C5: the lock around the CalendarCache is never held by a thread while   *)
(* that thread computes a snapshot; a thread holds it only while it is in  *)
(* the cache's get or put.                                                 *)
(***************************************************************************)
C5_NoLockWhileComputing ==
    \A t \in Threads :
        /\ th[t].pc \in {"compute", "ui_compute"} => ~Holds(lock, t)
        /\ Holds(lock, t) => th[t].pc \in {"lookup", "put", "ui_lookup"}

\* One thread is computing while another is inside the cache with the lock.
C5_Witness ==
    \E t, u \in Threads :
        /\ th[t].pc = "compute" /\ ~Holds(lock, t)
        /\ th[u].pc = "lookup" /\ Holds(lock, u)

(***************************************************************************)
(* C6: the snapshot of a day offset is computed at most once for as long   *)
(* as its cache entry has not been evicted, also under concurrent calls.   *)
(***************************************************************************)
C6_ComputedOnce == \A d \in DOMAIN computeCount : computeCount[d] <= 1

(***************************************************************************)
(* C7: the snapshot returned for a day offset depends on the day offset    *)
(* alone: any two calls for the same offset return equal snapshots, the    *)
(* next-solstice and Gregorian fields included.                            *)
(***************************************************************************)
C7_FunctionOfDay ==
    \A r1, r2 \in returned : r1.days = r2.days => r1.data = r2.data

(***************************************************************************)
(* The glyph textures.                                                     *)
(*                                                                         *)
(* image::open / image::load_from_memory of a file: a missing file is an   *)
(* I/O error, a corrupt one a decode error, any other file decodes to an   *)
(* image of its own size.  ctx.load_texture uploads the image and returns  *)
(* a fresh handle.                                                         *)
(***************************************************************************)
MaxLookups == 3

Decode(file) ==
    CASE file = "missing" -> [ok |-> FALSE, reason |-> "FileError"]
      [] file = "corrupt" -> [ok |-> FALSE, reason |-> "ImageLoadError"]
      [] file = "wrong_size" -> [ok |-> TRUE, size |-> "64x64"]
      [] OTHER -> [ok |-> TRUE, size |-> "128x128"]

load_texture(hs, k, size) == [id |-> Cardinality(hs) + 1, key |-> k, size |-> size]

\* The check `width != 128 || height != 128` of the loaders that have it.
InvalidDimensions_unchecked(size) == FALSE

InvalidDimensions(size) == size # "128x128"

\* A failed load returns before the insert: the map is left as it was.
failed_load_remembered(tex, k) == [tex EXCEPT ![k] = [id |-> 0, key |-> k, size |-> "unavailable"]]

failed_load(tex, k) == tex

cached_texture_forgotten(tex, k) == NoTexture

cached_texture(tex, k) == tex[k]

GlyphReturn(t, k, texture, loaded, file) ==
    /\ gth' = [gth EXCEPT ![t] = IdleGlyphThread]
    /\ glog' = Append(glog, [key |-> k, texture |-> texture, loaded |-> loaded,
                             file |-> file, waited |-> gth[t].waited,
                             stored |-> textures'[k] # NoTexture])

(***************************************************************************)
(* SpecAsset, iterations 0.4.0 and 0.5.1: GlyphRenderer::get_texture loads *)
(* on demand.  It takes the write guard, looks the path up, and on a miss  *)
(* opens the image, uploads it and inserts the handle, all before the      *)
(* guard goes out of scope at the return.  0.5.1 first checks that the     *)
(* file exists.                                                            *)
(*   gt_wait    in cache.write(); `waited` tells whether the call blocked  *)
(*   gt_lookup  holding the write guard, about to look the handle up       *)
(*   gt_load    holding the write guard, about to open the image           *)
(***************************************************************************)
GetTextureBegin(t, k) ==
    /\ build = "v0_5_1"
    /\ gth[t].pc = "idle"
    /\ Len(glog) + Cardinality({u \in Threads : gth[u].pc # "idle"}) < MaxLookups
    /\ IF files[k] = "missing"
       THEN /\ UNCHANGED <<textures, assetLock>>
            /\ GlyphReturn(t, k, NoTexture, FALSE, "missing")
       ELSE /\ gth' = [gth EXCEPT ![t] = [pc |-> "gt_wait", key |-> k,
                                           texture |-> NoTexture,
                                           waited |-> ~CanWrite(assetLock)]]
            /\ UNCHANGED <<textures, assetLock, glog>>
    /\ UNCHANGED <<build, mathVars, cacheVars, engineVars, histVars,
                   files, preload, app, handles, attempts>>

GetTextureWrite(t) ==
    /\ gth[t].pc = "gt_wait"
    /\ CanWrite(assetLock)
    /\ assetLock' = WriteGuard(assetLock, t)
    /\ gth' = [gth EXCEPT ![t].pc = "gt_lookup"]
    /\ UNCHANGED <<build, mathVars, cacheVars, engineVars, histVars,
                   files, textures, preload, app, handles, attempts, glog>>

GetTextureLookup(t) ==
    /\ gth[t].pc = "gt_lookup"
    /\ IF cached_texture(textures, gth[t].key) # NoTexture
       THEN /\ assetLock' = DropWriteGuard(assetLock, t)
            /\ UNCHANGED textures
            /\ GlyphReturn(t, gth[t].key, cached_texture(textures, gth[t].key), FALSE,
                           files[gth[t].key])
       ELSE /\ gth' = [gth EXCEPT ![t].pc = "gt_load"]
            /\ UNCHANGED <<textures, assetLock, glog>>
    /\ UNCHANGED <<build, mathVars, cacheVars, engineVars, histVars,
                   files, preload, app, handles, attempts>>

GetTextureLoad(t) ==
    /\ gth[t].pc = "gt_load"
    /\ LET k     == gth[t].key
           image == Decode(files[k])
       IN IF ~image.ok
          THEN /\ attempts' = [attempts EXCEPT ![k] = image.reason]
               /\ textures' = failed_load(textures, k)
               /\ UNCHANGED handles
               /\ GlyphReturn(t, k, NoTexture, TRUE, files[k])
          ELSE LET texture == load_texture(handles, k, image.size)
               IN /\ handles' = handles \cup {texture}
                  /\ textures' = [textures EXCEPT ![k] = texture]
                  /\ attempts' = [attempts EXCEPT ![k] = "ok"]
                  /\ GlyphReturn(t, k, texture, TRUE, files[k])
    /\ assetLock' = DropWriteGuard(assetLock, t)
    /\ UNCHANGED <<build, mathVars, cacheVars, engineVars, histVars, files, preload, app>>

(***************************************************************************)
(* SpecAsset, the BOOSTER iteration: load_tzolkin_image_as_texture and     *)
(* load_haab_image_as_texture, called by the UI thread with the cache by   *)
(* `&mut` (no lock): cache check, open, size check, upload, insert.        *)
(***************************************************************************)
load_image_as_texture(k) ==
    /\ build = "booster"
    /\ Len(glog) < MaxLookups
    /\ IF cached_texture(textures, k) # NoTexture
       THEN /\ UNCHANGED <<textures, handles, attempts>>
            /\ GlyphReturn(UiThread, k, cached_texture(textures, k), FALSE, files[k])
       ELSE LET image == Decode(files[k])
            IN IF ~image.ok
               THEN /\ attempts' = [attempts EXCEPT ![k] = image.reason]
                    /\ textures' = failed_load(textures, k)
                    /\ UNCHANGED handles
                    /\ GlyphReturn(UiThread, k, NoTexture, TRUE, files[k])
               ELSE IF InvalidDimensions(image.size)
               THEN /\ attempts' = [attempts EXCEPT ![k] = "InvalidDimensions"]
                    /\ textures' = failed_load(textures, k)
                    /\ UNCHANGED handles
                    /\ GlyphReturn(UiThread, k, NoTexture, TRUE, files[k])
               ELSE LET texture == load_texture(handles, k, image.size)
                    IN /\ handles' = handles \cup {texture}
                       /\ textures' = [textures EXCEPT ![k] = texture]
                       /\ attempts' = [attempts EXCEPT ![k] = "ok"]
                       /\ GlyphReturn(UiThread, k, texture, TRUE, files[k])
    /\ UNCHANGED <<build, mathVars, cacheVars, engineVars, histVars,
                   files, assetLock, preload, app>>

\* Someone repairs a glyph file on disk.
FixFile(k) ==
    /\ files[k] # "ok"
    /\ files' = [files EXCEPT ![k] = "ok"]
    /\ UNCHANGED <<build, mathVars, cacheVars, engineVars, histVars,
                   textures, assetLock, gth, preload, app, handles, attempts, glog>>

(***************************************************************************)
(* SpecAsset, iterations 0.0.4, 0.1.9 and 0.2.5: MayanCalendar::new        *)
(* preloads every glyph of the configuration with preload_glyphs, and      *)
(* nothing is loaded later.  Each glyph is read, decoded, checked to be    *)
(* 128x128 and uploaded with no lock held; the write guard is taken for    *)
(* the insert alone.                                                       *)
(*   0.0.4  paths.par_iter().try_for_each: the workers share the paths;    *)
(*          once one load has failed the paths not yet started may or may  *)
(*          not still be run.  new() returns the error (`?`) and main      *)
(*          builds a calendar with an empty texture cache instead.         *)
(*   0.1.9  paths.iter().try_for_each: one thread, in order, stopping at   *)
(*          the first failure.  new() returns the error (`?`) and main     *)
(*          panics (as 0.1.5 and 0.0.6 do).                                *)
(*   0.2.5  the same preload; new() logs the error and goes on.            *)
(*   pl_load    about to read and decode the file                          *)
(*   pl_insert  handle in hand, about to take the write guard and insert   *)
(***************************************************************************)
PreloadBuilds == {"v0_0_4", "v0_1_9", "v0_2_5"}

RemoveAt(seq, i) == SubSeq(seq, 1, i - 1) \o SubSeq(seq, i + 1, Len(seq))

MayanCalendar_new ==
    /\ build \in PreloadBuilds
    /\ app = "none"
    /\ app' = "constructing"
    /\ preload' = [state |-> "running", todo |-> PreloadOrder, error |-> "none"]
    /\ UNCHANGED <<build, mathVars, cacheVars, engineVars, histVars,
                   files, textures, assetLock, gth, handles, attempts, glog>>

PreloadPick(t, i) ==
    /\ preload.state = "running"
    /\ gth[t].pc = "idle"
    /\ i \in 1..Len(preload.todo)
    /\ build # "v0_0_4" => (t = UiThread /\ i = 1 /\ preload.error = "none")
    /\ gth' = [gth EXCEPT ![t] = [pc |-> "pl_load", key |-> preload.todo[i],
                                  texture |-> NoTexture, waited |-> FALSE]]
    /\ preload' = [preload EXCEPT !.todo = RemoveAt(@, i)]
    /\ UNCHANGED <<build, mathVars, cacheVars, engineVars, histVars,
                   files, textures, assetLock, app, handles, attempts, glog>>

PreloadFail(t, reason) ==
    /\ attempts' = [attempts EXCEPT ![gth[t].key] = reason]
    /\ preload' = [preload EXCEPT !.error = IF @ = "none" THEN reason ELSE @]
    /\ gth' = [gth EXCEPT ![t] = IdleGlyphThread]
    /\ UNCHANGED handles

PreloadLoad(t) ==
    /\ gth[t].pc = "pl_load"
    /\ LET k     == gth[t].key
           image == Decode(files[k])
       IN IF ~image.ok THEN PreloadFail(t, image.reason)
          ELSE IF InvalidDimensions(image.size) THEN PreloadFail(t, "InvalidDimensions")
          ELSE LET texture == load_texture(handles, k, image.size)
               IN /\ handles' = handles \cup {texture}
                  /\ gth' = [gth EXCEPT ![t].pc = "pl_insert", ![t].texture = texture]
                  /\ UNCHANGED <<preload, attempts>>
    /\ UNCHANGED <<build, mathVars, cacheVars, engineVars, histVars,
                   files, textures, assetLock, app, glog>>

PreloadInsert(t) ==
    /\ gth[t].pc = "pl_insert"
    /\ CanWrite(assetLock)
    /\ textures' = [textures EXCEPT ![gth[t].key] = gth[t].texture]
    /\ attempts' = [attempts EXCEPT ![gth[t].key] = "ok"]
    /\ gth' = [gth EXCEPT ![t] = IdleGlyphThread]
    /\ UNCHANGED <<build, mathVars, cacheVars, engineVars, histVars,
                   files, assetLock, preload, app, handles, glog>>

PreloadFinish ==
    /\ preload.state = "running"
    /\ \A t \in Threads : gth[t].pc = "idle"
    /\ preload.todo = << >> \/ preload.error # "none"
    /\ preload' = [preload EXCEPT !.state = "done"]
    /\ app' = CASE preload.error = "none" -> "serving"
                [] build = "v0_0_4"       -> "fallback"
                [] build = "v0_1_9"       -> "crashed"
                [] OTHER                  -> "serving"
    /\ textures' = IF app' = "fallback" THEN [k \in AssetKeys |-> NoTexture]
                                        ELSE textures
    /\ UNCHANGED <<build, mathVars, cacheVars, engineVars, histVars,
                   files, assetLock, gth, handles, attempts, glog>>

\* get_texture of 0.2.5 (behind get_glyph_sequence): a lookup under the read
\* guard, nothing else.
get_texture_lookup(t, k) ==
    /\ build = "v0_2_5"
    /\ app = "serving"
    /\ gth[t].pc = "idle"
    /\ Len(glog) < MaxLookups
    /\ CanRead(assetLock)
    /\ UNCHANGED textures
    /\ GlyphReturn(t, k, cached_texture(textures, k), FALSE, files[k])
    /\ UNCHANGED <<build, mathVars, cacheVars, engineVars, histVars,
                   files, assetLock, preload, app, handles, attempts>>

(***************************************************************************)
(* GlyphRenderer::get_glyph_sequence.  The configuration has one Tzolk'in  *)
(* glyph and one Haab' glyph, those of PreloadOrder; a spec is a glyph     *)
(* type and a name, and its path is found in the table of its type.  In    *)
(* 0.0.7b and 0.1.9 (build "v0_1_9") the function holds the read guard     *)
(* throughout and returns None at the first spec without a path or without *)
(* a cached texture; in 0.2.5 it looks each texture up through get_texture *)
(* and has no branch for a spec without a path.  The cache is not written  *)
(* once the application serves, so the call is one step.                   *)
(***************************************************************************)
MaxSpecs == 2

GlyphConfig == [Tzolkin |-> {PreloadOrder[1]}, Haab |-> {PreloadOrder[2]}]

GlyphSpecs ==
    {<<"Tzolkin", "imix">>, <<"Haab", "pop">>, <<"Tzolkin", "ahau">>, <<"Haab", "imix">>}

SpecSequences == UNION {[1..n -> GlyphSpecs] : n \in 0..MaxSpecs}

HasPath(spec) == spec[2] \in GlyphConfig[spec[1]]

RECURSIVE glyph_sequence_v0_1_9(_, _, _)
glyph_sequence_v0_1_9(tex, specs, acc) ==
    IF specs = << >> THEN [some |-> TRUE, value |-> acc, record |-> "hit"]
    ELSE IF ~HasPath(Head(specs)) THEN [some |-> FALSE, record |-> "none"]
    ELSE IF cached_texture(tex, Head(specs)[2]) = NoTexture
         THEN [some |-> FALSE, record |-> "miss"]
    ELSE glyph_sequence_v0_1_9(tex, Tail(specs),
                               Append(acc, cached_texture(tex, Head(specs)[2])))

RECURSIVE glyph_sequence_v0_2_5(_, _, _)
glyph_sequence_v0_2_5(tex, specs, acc) ==
    IF specs = << >> THEN [some |-> TRUE, value |-> acc, record |-> "hit"]
    ELSE IF ~HasPath(Head(specs)) THEN glyph_sequence_v0_2_5(tex, Tail(specs), acc)
    ELSE IF cached_texture(tex, Head(specs)[2]) = NoTexture
         THEN [some |-> FALSE, record |-> "miss"]
    ELSE glyph_sequence_v0_2_5(tex, Tail(specs),
                               Append(acc, cached_texture(tex, Head(specs)[2])))

get_glyph_sequence(glyph_specs) ==
    /\ build \in {"v0_1_9", "v0_2_5"}
    /\ app = "serving"
    /\ \A t \in Threads : gth[t].pc = "idle"
    /\ mathOut.fn = "none"
    /\ CanRead(assetLock)
    /\ LET r == IF build = "v0_1_9"
                THEN glyph_sequence_v0_1_9(textures, glyph_specs, << >>)
                ELSE glyph_sequence_v0_2_5(textures, glyph_specs, << >>)
       IN /\ mathOut' = [fn |-> "get_glyph_sequence", glyph_specs |-> glyph_specs,
                         result |-> IF r.some THEN Some(r.value) ELSE None]
          /\ metrics' = CASE r.record = "hit" -> record_cache_hit(metrics)
                          [] r.record = "miss" -> record_cache_miss(metrics)
                          [] OTHER -> metrics
    /\ UNCHANGED <<build, days, cacheVars, lock, now, last_calendar_update, th, range, calendar_data,
                   histVars, assetVars>>

AssetBuilds == {"v0_5_1", "booster"} \cup PreloadBuilds

InitAsset ==
    /\ build \in AssetBuilds
    /\ files \in [AssetKeys -> FileStates]
    /\ AssetAtRest
    /\ CalculatorAtRest
    /\ capacity = 1
    /\ lru = << >>
    /\ log = << >>
    /\ days = 0
    /\ mathOut = [fn |-> "none"]

NextAsset ==
    \/ \E t \in Threads, k \in AssetKeys : GetTextureBegin(t, k)
    \/ \E t \in Threads : GetTextureWrite(t)
    \/ \E t \in Threads : GetTextureLookup(t)
    \/ \E t \in Threads : GetTextureLoad(t)
    \/ \E k \in AssetKeys : load_image_as_texture(k)
    \/ \E k \in AssetKeys : FixFile(k)
    \/ MayanCalendar_new
    \/ \E t \in Threads, i \in 1..Len(PreloadOrder) : PreloadPick(t, i)
    \/ \E t \in Threads : PreloadLoad(t)
    \/ \E t \in Threads : PreloadInsert(t)
    \/ PreloadFinish
    \/ \E t \in Threads, k \in AssetKeys : get_texture_lookup(t, k)
    \/ \E glyph_specs \in SpecSequences : get_glyph_sequence(glyph_specs)

SpecAsset == InitAsset /\ [][NextAsset]_vars

HandlesOf(k) == {h \in handles : h.key = k}

C15_Only128x128 ==
    /\ \A k \in AssetKeys :
           textures[k] # NoTexture => textures[k].size = "128x128"
    /\ \A i \in 1..Len(glog) :
           /\ glog[i].texture # NoTexture => glog[i].texture.size = "128x128"
           /\ (glog[i].loaded /\ glog[i].file = "wrong_size")
                  => (glog[i].texture = NoTexture /\ ~glog[i].stored)

\* C16: a finished preload has attempted every glyph of the configuration,
\* whatever failed, and every glyph that loaded is in the cache.
C16_PreloadAttemptsAll ==
    preload.state = "done" =>
        \A k \in AssetKeys :
            /\ attempts[k] # "none"
            /\ attempts[k] = "ok" => textures[k] # NoTexture

\* C17: a glyph that fails in the startup preload never keeps the calendar
\* from being constructed and serving.
C17_PreloadFailureDegrades ==
    (preload.state = "done" /\ preload.error # "none") => app # "crashed"

\* C18: a lookup of a key whose own file is sound and whose own load never
\* failed returns a handle, whatever happened to the other keys.
C18_OtherKeysUnaffected ==
    \A i \in 1..Len(glog) :
        (glog[i].file = "ok" /\ attempts[glog[i].key] \in {"none", "ok"})
            => glog[i].texture # NoTexture

\* The iterations whose texture lookup loads on a miss.
LazyBuilds == {"v0_5_1", "booster"}

\* C19: a lookup that fails stores nothing for its key, and a later lookup
\* of the key made when the file is sound reads the file again and returns
\* a handle.
C19_FailureNotRemembered ==
    build \in LazyBuilds =>
        /\ \A i \in 1..Len(glog) : glog[i].texture = NoTexture => ~glog[i].stored
        /\ \A i \in 1..Len(glog), j \in 1..Len(glog) :
               (i < j /\ glog[i].key = glog[j].key /\ glog[i].texture = NoTexture
                      /\ glog[j].file = "ok")
                   => (glog[j].texture # NoTexture /\ glog[j].texture.size = "128x128")

C19_Witness ==
    /\ build \in LazyBuilds
    /\ Len(glog) >= 2
    /\ glog[1].key = glog[2].key
    /\ glog[1].loaded /\ glog[1].texture = NoTexture /\ glog[1].file # "ok"
    /\ glog[2].loaded /\ glog[2].texture # NoTexture /\ glog[2].file = "ok"

\* C20: no thread holds the asset cache's lock while it reads and decodes an
\* image file.
C20_NoLockWhileDecoding ==
    \A t \in Threads :
        gth[t].pc \in {"gt_load", "pl_load"} => ~Holds(assetLock, t)

\* C21: while a caller is inside the cache's guard for a get, another get
\* could enter the guard as well: a get holds the lock shared, never
\* exclusively.
C21_GetsShareTheGuard ==
    \A t \in Threads :
        th[t].pc \in {"lookup", "ui_lookup"} => CanRead(lock)

(***************************************************************************)
(* SpecStart: the construction of the cache.  CalendarCache::new takes a   *)
(* NonZeroUsize; MayanCalendar::new makes it with                          *)
(* NonZeroUsize::new(n).unwrap(), which panics when n is 0 (the source     *)
(* writes the literal 100 or 1000 for n).  Here `capacity` starts as the   *)
(* number n handed to NonZeroUsize::new, and `app` tells how construction  *)
(* ended; when it succeeds the cache serves puts and gets as in SpecCache. *)
(***************************************************************************)
NonZeroUsize_new_unchecked(n) == Some(n)

NonZeroUsize_new(n) == IF n = 0 THEN None ELSE Some(n)

InitStart ==
    /\ build \in Builds
    /\ capacity \in 0..MaxCapacity
    /\ lru = << >>
    /\ log = << >>
    /\ days = 0
    /\ mathOut = [fn |-> "none"]
    /\ EngineAtRest

CalendarCache_new ==
    /\ app = "none"
    /\ app' = IF NonZeroUsize_new(capacity).some THEN "serving" ELSE "crashed"
    /\ UNCHANGED <<build, mathVars, cacheVars, engineVars, histVars,
                   files, textures, assetLock, gth, preload, handles, attempts, glog>>

NextStart ==
    \/ CalendarCache_new
    \/ app = "serving" /\ \E k \in CacheKeys : PutOp(k)
    \/ app = "serving" /\ \E k \in CacheKeys : GetOp(k)

SpecStart == InitStart /\ [][NextStart]_vars

MaxRecords == 4

InitMetrics ==
    /\ build = "metrics"
    /\ capacity = 1
    /\ lru = << >>
    /\ log = << >>
    /\ days = 0
    /\ mathOut = [fn |-> "none"]
    /\ EngineAtRest

Recorded(t, op, m) ==
    /\ Len(log) < MaxRecords
    /\ metrics' = m
    /\ log' = Append(log, [op |-> op, thread |-> t])
    /\ UNCHANGED <<assetVars, build, mathVars, capacity, lru, lock, now, last_calendar_update, th, range,
                   calendar_data, histVars>>

RecordCacheHit(t) == Recorded(t, "record_cache_hit", record_cache_hit(metrics))

RecordCacheMiss(t) == Recorded(t, "record_cache_miss", record_cache_miss(metrics))

RecordCalculation(t, micros) ==
    Recorded(t, "record_calculation", record_calculation(metrics, micros))

\* Metrics::cache_hit_rate, called by Metrics::report: two loads, one
\* after the other, then the quotient of the loaded values.  The f64
\* quotient is kept as the fraction num / den; den = 0 stands for the NaN
\* that 0.0 / 0.0 gives.
cache_hit_rate_unguarded(hits, misses) ==
    [num |-> hits, den |-> hits + misses]

cache_hit_rate(hits, misses) ==
    LET total == hits + misses
    IN IF total > 0 THEN [num |-> hits, den |-> total]
       ELSE [num |-> 0, den |-> 1]

ReportLoadHits ==
    /\ mathOut.fn = "none"
    /\ mathOut' = [fn |-> "cache_hit_rate", pc |-> "hits_loaded",
                   hits |-> metrics.cache_hits]
    /\ UNCHANGED <<assetVars, build, days, cacheVars, engineVars, histVars>>

ReportLoadMisses ==
    /\ mathOut.fn = "cache_hit_rate"
    /\ mathOut.pc = "hits_loaded"
    /\ mathOut' = [fn |-> "cache_hit_rate", pc |-> "done", hits |-> mathOut.hits,
                   misses |-> metrics.cache_misses,
                   rate |-> cache_hit_rate(mathOut.hits, metrics.cache_misses)]
    /\ UNCHANGED <<assetVars, build, days, cacheVars, engineVars, histVars>>

NextMetrics ==
    \/ ReportLoadHits
    \/ ReportLoadMisses
    \/ \E t \in Threads : RecordCacheHit(t)
    \/ \E t \in Threads : RecordCacheMiss(t)
    \/ \E t \in Threads, micros \in 0..MaxMicros : RecordCalculation(t, micros)

SpecMetrics == InitMetrics /\ [][NextMetrics]_vars

CountOf(lg, op) == Cardinality({i \in 1..Len(lg) : lg[i].op = op})

\* C23: after k record_cache_hit and m record_cache_miss calls have
\* completed, from whichever threads and in whichever order, cache_hits is k
\* and cache_misses is m.
C23_NoLostUpdate ==
    /\ metrics.cache_hits = CountOf(log, "record_cache_hit")
    /\ metrics.cache_misses = CountOf(log, "record_cache_miss")

\* Both threads have recorded hits and misses, interleaved.
C23_Witness ==
    /\ Len(log) = 4
    /\ log[1] = [op |-> "record_cache_hit", thread |-> 1]
    /\ log[2] = [op |-> "record_cache_miss", thread |-> 2]
    /\ log[3] = [op |-> "record_cache_hit", thread |-> 2]
    /\ log[4] = [op |-> "record_cache_miss", thread |-> 1]
    /\ metrics.cache_hits = 2 /\ metrics.cache_misses = 2

\* C24: in the iteration with calculate_single_date, once every call has
\* returned, each recorded miss has had the
\* duration of its computation recorded: record_calculation has been called
\* at least as often as record_cache_miss.
C24_MissRecordsDuration ==
    (build = "v0_2_3" /\ (\A t \in Threads : th[t].pc = "idle")
                      /\ range.state # "running")
        => calls.timed >= metrics.cache_misses

\* C28: for every jdn, negative ones included, year_bearer(jdn) is one of
\* the four Year Bearer day names: the index into the table is in 0..3.
C28_YearBearerInTable ==
    mathOut.fn = "year_bearer" =>
        mathOut.name \in {year_bearer_days[i] : i \in 1..Len(year_bearer_days)}

C25_ComputedFromJdn ==
    \A r \in returned :
        LET jdn == r.days + CREATION_DATE_JDN
        IN /\ r.data.julian_day_number = jdn
           /\ r.data.moon_phase = moon_phase(jdn)
           /\ r.data.venus_phase = venus_phase(jdn)
           /\ r.data.year_bearer = year_bearer(jdn)
           /\ r.data.eclipse_status = next_eclipse(jdn)
           /\ r.data.historical_event = historical_event(jdn)


\* C26: the Calendar Round repeats: for every day offset d, the Tzolkin
\* date and the Haab date of d + 18980 are those of d.
C26_CalendarRoundRepeats ==
    mathOut.fn = "calendar_round" =>
        /\ mathOut.tzolkin2 = mathOut.tzolkin1
        /\ mathOut.haab2 = mathOut.haab1


(***************************************************************************)
(* SpecLongCount: a Long Count is given by its components, converted to    *)
(* days and back, as tests::test_long_count_conversion of 0.0.5 does.      *)
(* The fields and the day count are i32; to_days is computed exactly, in   *)
(* two base-2^16 digits, and then taken at that width: with overflow       *)
(* checks (debug profile) an overflowing sum panics, without them          *)
(* (release profile) it wraps.                                             *)
(***************************************************************************)
TwoTo16 == 256 * 256

to_days_wide_vigesimal(lc) ==
    LET low == lc.baktun * (BAKTUN_DAYS % TwoTo16) + lc.katun * KATUN_DAYS
                 + lc.tun * (20 * UINAL_DAYS) + lc.uinal * UINAL_DAYS + lc.kin
    IN [hi |-> lc.baktun * (BAKTUN_DAYS \div TwoTo16) + low \div TwoTo16,
        lo |-> low % TwoTo16]

to_days_wide(lc) ==
    LET low == lc.baktun * (BAKTUN_DAYS % TwoTo16) + lc.katun * KATUN_DAYS
                 + lc.tun * TUN_DAYS + lc.uinal * UINAL_DAYS + lc.kin
    IN [hi |-> lc.baktun * (BAKTUN_DAYS \div TwoTo16) + low \div TwoTo16,
        lo |-> low % TwoTo16]

FitsI32(wide) == wide.hi < TwoTo16 \div 2

to_days_i32(lc, overflow_checks) ==
    LET wide == to_days_wide(lc)
    IN IF FitsI32(wide) THEN [panic |-> FALSE, value |-> wide.hi * TwoTo16 + wide.lo]
       ELSE IF overflow_checks THEN [panic |-> TRUE]
       ELSE [panic |-> FALSE,
             value |-> ((wide.hi % TwoTo16) - TwoTo16) * TwoTo16 + wide.lo]

\* The baktuns of the test, and those around the largest whose day count
\* fits in an i32 (14913 * 144000 <= 2^31 - 1 < 14914 * 144000).
BaktunInputs == {0, 8, 13, 14912, 14913, 14914}

LongCounts ==
    [baktun : BaktunInputs, katun : {0, 14, 19}, tun : {0, 3, 19},
     uinal : 0 .. 17, kin : 0 .. 19]

InitLongCount ==
    /\ build = "math"
    /\ days = 0
    /\ mathOut = [fn |-> "none"]
    /\ capacity = 1
    /\ lru = << >>
    /\ log = << >>
    /\ EngineAtRest

LongCountConversion(lc, overflow_checks) ==
    /\ mathOut.fn = "none"
    /\ LET d == to_days_i32(lc, overflow_checks)
       IN mathOut' = [fn |-> "long_count_conversion", lc |-> lc,
                      overflow_checks |-> overflow_checks, days |-> d,
                      reconstructed |-> IF d.panic THEN [panic |-> TRUE]
                                        ELSE from_days(d.value)]
    /\ UNCHANGED <<assetVars, build, days, cacheVars, engineVars, histVars>>

NextLongCount ==
    \E lc \in LongCounts, overflow_checks \in BOOLEAN :
        LongCountConversion(lc, overflow_checks)

SpecLongCount == InitLongCount /\ [][NextLongCount]_vars

\* C27 as stated: for every Long Count whose components are in their
\* place-value ranges (baktun >= 0, katun, tun and kin in 0..19, uinal in
\* 0..17), converting it to days and back reconstructs it.
C27_EveryLongCountRoundTrips ==
    mathOut.fn = "long_count_conversion" => mathOut.reconstructed = mathOut.lc

\* C27 as the code has it: a Long Count in its place-value ranges whose day
\* count fits in an i32 is reconstructed by to_days followed by from_days,
\* and every such Long Count with baktun <= 14912 has a day count that fits.
C27_RoundTripWithinI32 ==
    mathOut.fn = "long_count_conversion" =>
        /\ mathOut.lc.baktun <= 14912 => FitsI32(to_days_wide(mathOut.lc))
        /\ FitsI32(to_days_wide(mathOut.lc)) =>
               /\ ~mathOut.days.panic
               /\ mathOut.reconstructed = mathOut.lc

C27_Witness ==
    /\ mathOut.fn = "long_count_conversion"
    /\ mathOut.lc = [baktun |-> 8, katun |-> 14, tun |-> 3, uinal |-> 1, kin |-> 12]
    /\ mathOut.days = [panic |-> FALSE, value |-> 1253912]
    /\ mathOut.reconstructed = mathOut.lc


(***************************************************************************)
(* SpecDates: next_solstice_or_equinox is called with a valid date of one  *)
(* of four consecutive years, the second a leap year.                      *)
(***************************************************************************)
Years == {2023, 2024, 2025, 2026}

ValidDates ==
    {date \in [year : Years, month : 1 .. 12, day : 1 .. 31] :
        date.day <= DaysInMonth(date.year, date.month)}

InitDates ==
    /\ build = "math"
    /\ days = 0
    /\ mathOut = [fn |-> "none"]
    /\ capacity = 1
    /\ lru = << >>
    /\ log = << >>
    /\ EngineAtRest

NextSolsticeOrEquinox(today, file) ==
    /\ mathOut.fn = "none"
    /\ mathOut' = [fn |-> "next_solstice_or_equinox", file |-> file, today |-> today,
                   result |-> IF file = "main"
                              THEN next_solstice_or_equinox(today.year, today.month,
                                                            today.day)
                              ELSE next_solstice_or_equinox_v0_0_4(today.year,
                                                            today.month, today.day)]
    /\ UNCHANGED <<assetVars, build, days, cacheVars, engineVars, histVars>>

\* HISTORICAL_EVENTS of iteration 0.0.4, the hash map from JDN to event that
\* its historical_event looks the JDN up in.  The descriptions are written
\* without their leading emoji and with plain apostrophes and letters.
HISTORICAL_EVENTS ==
    << <<584283, "The Maya creation date (0.0.0.0.0)">>,
       <<1710534, "Earliest Long Count Date Found">>,
       <<1729974, "Teotihuacan Influence Over Tikal Begins">>,
       <<1747528, "Dynasty of Copan Founded">>,
       <<1787293, "Tikal Defeated by Calakmul">>,
       <<1830475, "King Jasaw Chan K'awiil I Crowned in Tikal">>,
       <<1854923, "Uxmal Emerges as a Major Power">>,
       <<1898765, "Tikal Abandoned">>,
       <<1943872, "Toltec-Maya Rule in Chichen Itza Begins">>,
       <<2052647, "Decline of Chichen Itza">>,
       <<2160983, "Spanish Make First Contact with the Maya">>,
       <<2214876, "Spanish Conquer the Last Maya City, Tayasal">> >>

historical_event_v0_0_4(jdn) ==
    LET matching == {i \in 1..Len(HISTORICAL_EVENTS) : HISTORICAL_EVENTS[i][1] = jdn}
    IN IF matching = {} THEN None
       ELSE Some(HISTORICAL_EVENTS[CHOOSE i \in matching : TRUE][2])

\* The dates of the event table of src/main.rs, and the day before and the
\* day after the first of them.
EventDates ==
    {[year |-> historical_events[i][1], month |-> historical_events[i][2],
      day |-> historical_events[i][3]] : i \in 1..Len(historical_events)}
        \cup {[year |-> -3113, month |-> 8, day |-> 10],
              [year |-> -3113, month |-> 8, day |-> 12]}

\* The JDNs a lookup is made for: the keys of the hash map, the JDNs of the
\* dates of the table, and the days next to each.
EventJdns ==
    LET keys  == {HISTORICAL_EVENTS[i][1] : i \in 1..Len(HISTORICAL_EVENTS)}
        dated == {gregorian_to_jdn(date.year, date.month, date.day) :
                     date \in EventDates}
    IN {jdn + offset : jdn \in keys \cup dated, offset \in {-1, 0, 1}}

GregorianToJdn(date) ==
    /\ mathOut.fn = "none"
    /\ mathOut' = [fn |-> "gregorian_to_jdn", date |-> date,
                   jdn |-> gregorian_to_jdn(date.year, date.month, date.day)]
    /\ UNCHANGED <<assetVars, build, days, cacheVars, engineVars, histVars>>

HistoricalEvent(jdn) ==
    /\ mathOut.fn = "none"
    /\ mathOut' = [fn |-> "historical_event", jdn |-> jdn,
                   by_map |-> historical_event_v0_0_4(jdn),
                   by_scan |-> historical_event(jdn)]
    /\ UNCHANGED <<assetVars, build, days, cacheVars, engineVars, histVars>>

NextDates ==
    \/ \E today \in ValidDates, file \in {"main", "v0_0_4"} :
           NextSolsticeOrEquinox(today, file)
    \/ \E date \in EventDates : GregorianToJdn(date)
    \/ \E jdn \in EventJdns : HistoricalEvent(jdn)

SpecDates == InitDates /\ [][NextDates]_vars

\* The event the contract names for a date: the first of the four fixed
\* dates of its year that is on or after it, else next year's Spring
\* Equinox; and the calendar days from the date to it.
FixedEvents(year) ==
    << <<"Spring Equinox", [year |-> year, month |-> 3, day |-> 20]>>,
       <<"Summer Solstice", [year |-> year, month |-> 6, day |-> 21]>>,
       <<"Autumn Equinox", [year |-> year, month |-> 9, day |-> 22]>>,
       <<"Winter Solstice", [year |-> year, month |-> 12, day |-> 21]>>,
       <<"Spring Equinox", [year |-> year + 1, month |-> 3, day |-> 20]>> >>

CalendarDays(from, to) ==
    gregorian_to_jdn(to.year, to.month, to.day)
        - gregorian_to_jdn(from.year, from.month, from.day)

EventOnOrAfter(today) ==
    LET events == FixedEvents(today.year)
        i == CHOOSE j \in 1..5 :
                 /\ CalendarDays(today, events[j][2]) >= 0
                 /\ \A k \in 1..(j - 1) : CalendarDays(today, events[k][2]) < 0
    IN <<events[i][1], CalendarDays(today, events[i][2])>>

\* C30: for every valid date, next_solstice_or_equinox returns the first of
\* the four fixed dates of that year (Mar 20, Jun 21, Sep 22, Dec 21) that is
\* on or after the date, or next year's Spring Equinox when the date is
\* after Dec 21, and the number of calendar days from the date to that
\* event, also in the wrap case.
C30_EventAndDayCount ==
    mathOut.fn = "next_solstice_or_equinox" =>
        mathOut.result = EventOnOrAfter(mathOut.today)


\* C31: the hit rate that Metrics::report shows is hits / (hits + misses)
\* of the counters it loaded whenever a lookup has been recorded, and 0 when
\* none has; it is never the result of a division by zero.
C31_HitRate ==
    (mathOut.fn = "cache_hit_rate" /\ mathOut.pc = "done") =>
        /\ mathOut.rate.den > 0
        /\ mathOut.hits + mathOut.misses > 0 =>
               mathOut.rate = [num |-> mathOut.hits,
                               den |-> mathOut.hits + mathOut.misses]
        /\ mathOut.hits + mathOut.misses = 0 => mathOut.rate.num = 0
        /\ mathOut.hits <= metrics.cache_hits
        /\ mathOut.misses <= metrics.cache_misses

\* A report made before any lookup was recorded.
C31_Witness ==
    /\ mathOut.fn = "cache_hit_rate" /\ mathOut.pc = "done"
    /\ mathOut.hits = 0 /\ mathOut.misses = 0
    /\ mathOut.rate = [num |-> 0, den |-> 1]


\* C32: over any sequence of engine operations, no Metrics counter (cache
\* hits, cache misses, cumulative calculation time, glyph load time, render
\* time) ever decreases.
C32_CountersNeverDecrease ==
    [][/\ metrics'.cache_hits >= metrics.cache_hits
       /\ metrics'.cache_misses >= metrics.cache_misses
       /\ metrics'.calculation_time >= metrics.calculation_time
       /\ metrics'.glyph_load_time >= metrics.glyph_load_time
       /\ metrics'.render_time >= metrics.render_time]_vars

\* A hit, a miss and two durations have been recorded, the second duration
\* shorter than a microsecond.
C32_Witness ==
    /\ Len(log) = 4
    /\ log[1].op = "record_cache_hit"
    /\ log[2].op = "record_calculation"
    /\ log[3].op = "record_cache_miss"
    /\ log[4].op = "record_calculation"
    /\ metrics.cache_hits = 1
    /\ metrics.cache_misses = 1
    /\ metrics.calculation_time = 1


\* C33: gregorian_to_jdn(-3113, 8, 11) is 584283, the correlation constant
\* that stands for day offset 0, and the days next to that date have the
\* neighbouring numbers.
C33_CreationDateJdn ==
    mathOut.fn = "gregorian_to_jdn" /\ mathOut.date.year = -3113 =>
        mathOut.jdn = CREATION_DATE_JDN + (mathOut.date.day - 11)

C33_Witness ==
    /\ mathOut.fn = "gregorian_to_jdn"
    /\ mathOut.date = [year |-> -3113, month |-> 8, day |-> 11]
    /\ mathOut.jdn = 584283

\* C38: for every jdn, the lookup in the hash map keyed by JDN returns the
\* event, or none, that the linear scan over the table of dates returns.
C38_MapAgreesWithScan ==
    mathOut.fn = "historical_event" => mathOut.by_map = mathOut.by_scan


\* C34: after any interleaving of calls, every entry of the CalendarCache
\* under key d is the snapshot computed for d (its day offset is d and its
\* Long Count converts back to d), and a call for d returns the snapshot of
\* d, never that of another day offset.
IsSnapshotOf(data, d) ==
    /\ data.days_since_creation = d
    /\ to_days(data.long_count) = d

C34_SnapshotOfItsDay ==
    /\ \A i \in 1..Len(lru) : IsSnapshotOf(lru[i].data, lru[i].key)
    /\ \A r \in returned : IsSnapshotOf(r.data, r.days)
    /\ mathOut.fn = "calculate_new_data" => IsSnapshotOf(mathOut.data, mathOut.days)


\* C35: after any sequence of calls, concurrent ones and ranges longer than
\* the capacity included, the CalendarCache holds at most as many entries as
\* the capacity it was constructed with, each under a key of its own.
C35_WithinCapacity ==
    /\ Len(lru) <= capacity
    /\ Cardinality(KeysOf(lru)) = Len(lru)

\* A range of two dates has returned from a cache of capacity 1, both dates
\* having been computed and put.
C35_Witness ==
    /\ capacity = 1
    /\ range.state = "returned"
    /\ range.count = 2
    /\ metrics.cache_misses >= 2
    /\ Len(lru) = 1


\* C36: every completed call records exactly one cache outcome.  At any
\* moment, in any interleaving, cache_hits + cache_misses is the number of
\* calls that have completed plus the number of calls in flight that have
\* already recorded their miss; so once n calls have completed and none is in
\* flight, the sum has grown by exactly n.
InFlight == {t \in Threads : th[t].pc # "idle"}

MissRecorded == {t \in Threads : th[t].pc \in {"compute", "computed", "put"}}

C36_OneOutcomePerCall ==
    metrics.cache_hits + metrics.cache_misses
        = (calls.started - Cardinality(InFlight)) + Cardinality(MissRecorded)

\* A range of two dates and a direct call have completed, with hits and
\* misses among them, and no call is in flight.
C36_Witness ==
    /\ InFlight = {}
    /\ range.state = "returned" /\ range.count = 2
    /\ calls.started = 3
    /\ metrics.cache_hits >= 1
    /\ metrics.cache_misses >= 1
    /\ metrics.cache_hits + metrics.cache_misses = 3


\* C37: get_glyph_sequence(specs) returns Some(textures) only when every
\* requested glyph was found, the list then holding one texture per spec in
\* the order of the specs; when a requested glyph has no configured path or
\* no cached texture, it returns None.
Found(spec) == HasPath(spec) /\ cached_texture(textures, spec[2]) # NoTexture

C37_AllOrNothing ==
    mathOut.fn = "get_glyph_sequence" =>
        LET specs == mathOut.glyph_specs
        IN IF \A i \in 1..Len(specs) : Found(specs[i])
           THEN mathOut.result = Some([i \in 1..Len(specs) |->
                                          cached_texture(textures, specs[i][2])])
           ELSE mathOut.result = None


(***************************************************************************)
(* SpecRefresh: the application keeps running and the wall clock moves on. *)
(* eframe calls App::update once per frame, so every step of a refresh     *)
(* that stays enabled is eventually taken; nothing forces the clock to     *)
(* advance.  Seconds are not modelled: a frame that comes less than a      *)
(* second after the last update changes nothing.                           *)
(*   v0_0_6  App::update stamps last_calendar_update, then calls           *)
(*           update_calendar_if_needed                                     *)
(*   v0_1_9  update_calendar_if_needed alone (the file has no App impl)     *)
(*   v0_4_0  App::update calls update_calendar_data                        *)
(***************************************************************************)
\* calculate_single_date as the one UI thread runs it: cache check, then
\* computation and put_calendar_data.
calculate_single_date(l, cap, m, d) ==
    LET r == get_calendar_data_get(l, d)
        data == calculate_single_date_data(d)
    IN IF r.result.found
       THEN [cache |-> r.cache, metrics |-> record_cache_hit(m), data |-> r.result.data]
       ELSE [cache |-> put_calendar_data(l, cap, d, data),
             metrics |-> record_cache_miss(m), data |-> data]

InitRefresh ==
    /\ build \in ClockBuilds
    /\ capacity \in 1..MaxCapacity
    /\ lru = << >>
    /\ log = << >>
    /\ days = 0
    /\ mathOut = [fn |-> "none"]
    /\ EngineAtRest

AppUpdate ==
    /\ build = "v0_0_6"
    /\ th[UiThread].pc = "idle"
    /\ last_calendar_update' = now
    /\ th' = [th EXCEPT ![UiThread].pc = "ui_check"]
    /\ UNCHANGED <<assetVars, build, mathVars, cacheVars, lock, metrics, now, range,
                   calendar_data, histVars>>

update_calendar_if_needed(micros) ==
    /\ \/ build = "v0_0_6" /\ th[UiThread].pc = "ui_check"
       \/ build = "v0_1_9" /\ th[UiThread].pc = "idle"
    /\ IF now # last_calendar_update
       THEN LET r == calculate_single_date(lru, capacity, metrics,
                                           calendar_data.days_since_creation)
            IN /\ calendar_data' = r.data
               /\ lru' = r.cache
               /\ metrics' = IF build = "v0_1_9"
                             THEN record_calculation(r.metrics, micros)
                             ELSE r.metrics
               /\ last_calendar_update' = now
       ELSE UNCHANGED <<calendar_data, lru, metrics, last_calendar_update>>
    /\ th' = [th EXCEPT ![UiThread].pc = "idle"]
    /\ UNCHANGED <<assetVars, build, mathVars, capacity, log, lock, now, range, histVars>>

\* The snapshot on display is not the one of the current date.
Stale == calendar_data.days_since_creation # DaysSinceEpoch(now)

\* A frame of 0.4.0.  Frames that find the display up to date are counted
\* up to MaxCalls; a frame that finds it stale always runs.
RefreshTick ==
    /\ Stale \/ calls.direct < MaxCalls
    /\ update_calendar_data

NextRefresh ==
    \/ AppUpdate
    \/ \E micros \in 0..MaxMicros : update_calendar_if_needed(micros)
    \/ RefreshTick
    \/ UpdateLookup
    \/ UpdateCompute
    \/ UpdateStore
    \/ ClockAdvance

SpecRefresh ==
    /\ InitRefresh
    /\ [][NextRefresh]_vars
    /\ WF_vars(AppUpdate)
    /\ WF_vars(\E micros \in 0..MaxMicros : update_calendar_if_needed(micros))
    /\ WF_vars(RefreshTick)
    /\ WF_vars(UpdateLookup)
    /\ WF_vars(UpdateCompute)
    /\ WF_vars(UpdateStore)

\* C39: whenever the snapshot on display is not the one of the current
\* date (the wall-clock date has changed while the application runs), a
\* later refresh brings it there: its day offset eventually equals the
\* number of days from the epoch to the current date.
C39_DisplayFollowsClock == Stale ~> ~Stale

====
